---- MODULE Spec2Model ----
(***************************************************************************)
(* State-machine model of the quiz bot in src/main.py: the relational      *)
(* store (sqlite tables), the process-wide pending_names map, the clock,   *)
(* the publish pass (_do_publish) and the answer handler (on_answer).      *)
(*                                                                         *)
(* The bot runs on one asyncio event loop and every store access is a      *)
(* synchronous sqlite call, so a handler runs atomically from one `await`  *)
(* of a transport call to the next.  Each action below is one such         *)
(* segment of a handler; handlers interleave only between segments.        *)
(***************************************************************************)
EXTENDS Integers, Sequences, FiniteSets, TLC

(* ------------------------------ bounds --------------------------------- *)
\* users that press controls / write in the group
MaxUsers == 2
\* group chats the quiz is published to
MaxChats == 1
\* answer events handled in one run
MaxAnswers == 3
\* on_answer invocations in flight at once
MaxHandlers == 2
\* the clock runs 0..MaxTime, one unit = one hour
MaxTime == 2
\* custom publish durations tried: 1..MaxHours hours
MaxHours == 1
\* publish passes in one run
MaxPasses == 2
\* authoring operations of the owner in one run
MaxEdits == 2
\* option counts the owner types when replacing the options of a question
MaxOptions == 2
\* the copies of a merge at which sqlite may raise: the first MaxFailAt
MaxFailAt == 4
\* chats in which the owner holds an add-question conversation
MaxAuthorChats == 2

Users == 1..MaxUsers
\* OWNER_ID of the environment (never 0); the owner is not one of Users
OWNER_ID == MaxUsers + 1
Chats == 1..MaxChats
Slots == 1..MaxHandlers
AuthorChats == 1..MaxAuthorChats

(* ------------------------------ values --------------------------------- *)
\* SQL NULL / Python None for a nullable TEXT column
NULL == <<>>

\* datetime.isoformat() of the instant t, and datetime.fromisoformat() back
isoformat(t) == <<"iso", t>>

fromisoformat(s) == s[2]

\* the texts a group member can send: blank, padded and plain names
Texts == {" ", " Ann ", "Bea"}

\* str.strip()
strip(s) ==
  CASE s = " " -> ""
    [] s = " Ann " -> "Ann"
    [] s = " c " -> "c"
    [] OTHER -> s

VARIABLES
  now,                \* _now_utc(), in hours
  quizzes,            \* table quizzes: set of [id, is_archived]
  questions,          \* table questions: set of [id, quiz_id, text, media_bundle_id]
  options,            \* table options: set of [id, question_id, option_index, text, is_correct]
  question_attachments,      \* table: set of [id, question_id, kind, file_id, position]
  media_bundles,             \* table media_bundles: set of [id, quiz_id]
  media_bundle_attachments,  \* table: set of [id, bundle_id, kind, file_id, position]
  responses,          \* table responses, UNIQUE(chat_id, user_id, question_id)
  participant_names,  \* table participant_names, UNIQUE(origin_chat_id, user_id, quiz_id)
  user_progress,      \* table user_progress: set of [id, origin_chat_id, user_id, quiz_id, started_at, finished_at]
  sent_msgs,          \* table sent_msgs: sequence in id order of [chat_id, quiz_id, message_id, expires_at]
  pending_names,      \* dict pending_names: its keys <<chat, user, quiz>> in insertion order
  handlers,           \* on_answer invocations in flight: slot -> position and locals
  outbox,             \* the last reply the bot delivered (popup or chat message)
  nevents,            \* history: answer events handled
  tally,              \* history: per <<chat, user, question>>, the answer events that got
                      \*   past the name guard, and how many of them ended each way
  nwrites,            \* history: writes of finished_at per <<chat, user, quiz>>
  nfinals,            \* history: final results delivered per <<chat, user, quiz>>
  pass,               \* the _do_publish invocation in flight, if any
  npasses,            \* publish passes started
  next_message_id,    \* message_id the transport gives the next published unit
  sqlite_sequence,    \* AUTOINCREMENT: the largest id ever given, per table
  edit_state,         \* FSM state and data of the owner's option-editing conversation
  build_session,      \* the process-wide BuildSession object
  build_state,        \* FSM state of the owner's add-question conversation, per chat
  nedits,             \* authoring operations started
  log                 \* history, kept when log.on: the sends of the newest publish
                      \*   pass in order, and what the transport did at each attempt
                      \*   of the newest send

\* what only the owner's authoring changes
buildVars == <<build_session, build_state>>
storeVars == <<quizzes, questions, options, question_attachments, media_bundles,
               media_bundle_attachments, sqlite_sequence, edit_state, nedits, buildVars>>
answerVars == <<responses, participant_names, user_progress, pending_names, handlers>>
ghostVars == <<nevents, tally, nwrites, nfinals>>
publishVars == <<sent_msgs, pass, npasses, next_message_id, log>>
vars == <<now, quizzes, questions, options, question_attachments, media_bundles,
          media_bundle_attachments, responses, participant_names, user_progress,
          sent_msgs, pending_names, handlers, outbox, nevents, tally, nwrites, nfinals,
          pass, npasses, next_message_id, sqlite_sequence, edit_state, nedits, log,
          build_session, build_state>>

(* --------------------------- store queries ----------------------------- *)
\* SELECT quiz_id FROM questions WHERE id=?   (the empty set: no row)
QuestionRows(question_id) == {q \in questions : q.id = question_id}

\* get_quiz_question_ids: SELECT id FROM questions WHERE quiz_id=? ORDER BY id
get_quiz_question_ids(quiz_id) == {q.id : q \in {x \in questions : x.quiz_id = quiz_id}}

\* variant: the key takes the option column in place of the question column
ResponseKey_byOption(r) == <<r.chat_id, r.user_id, r.option_index>>

\* the columns of the UNIQUE constraint of table responses
ResponseKey(r) == <<r.chat_id, r.user_id, r.question_id>>

\* variant: the lookup matches the question id against the option column
PrevResponse_byOption(chat_id, user_id, question_id) ==
  \E r \in responses :
    r.chat_id = chat_id /\ r.user_id = user_id /\ r.option_index = question_id

\* SELECT 1 FROM responses WHERE chat_id=? AND user_id=? AND question_id=?
PrevResponse(chat_id, user_id, question_id) ==
  \E r \in responses : ResponseKey(r) = <<chat_id, user_id, question_id>>

\* INSERT INTO responses: sqlite raises IntegrityError when the UNIQUE
\* constraint would be broken and leaves the table as it was
InsertResponse(table, row) ==
  IF \E r \in table : ResponseKey(r) = ResponseKey(row)
  THEN [ok |-> FALSE, table |-> table]
  ELSE [ok |-> TRUE, table |-> table \cup {row}]

\* SELECT 1 FROM participant_names WHERE origin_chat_id=? AND user_id=? AND quiz_id=?
HasName(chat_id, user_id, quiz_id) ==
  \E p \in participant_names :
    p.origin_chat_id = chat_id /\ p.user_id = user_id /\ p.quiz_id = quiz_id

\* SELECT text, is_correct FROM options WHERE question_id=? AND option_index=?
\* .fetchone(): the row with the least rowid, or no row
OptionRows(question_id, option_index) ==
  {o \in options : o.question_id = question_id /\ o.option_index = option_index}

FirstRow(rows) == CHOOSE r \in rows : \A x \in rows : r.id <= x.id

\* variant: the flag of any option of the question, whatever its index
GradeOption_anyIndex(question_id, option_index) ==
  IF \E o \in options : o.question_id = question_id /\ o.is_correct = 1 THEN 1 ELSE 0

\* is_correct = 1 if opt and int(opt["is_correct"]) == 1 else 0
GradeOption(question_id, option_index) ==
  IF OptionRows(question_id, option_index) # {}
     /\ FirstRow(OptionRows(question_id, option_index)).is_correct = 1
  THEN 1 ELSE 0

\* _quiz_expired: the newest sent_msgs row of (chat, quiz) whose expires_at
\* is not NULL decides; no such row means no verdict (None)
ExpiryRows(chat_id, quiz_id) ==
  {i \in 1..Len(sent_msgs) :
     sent_msgs[i].chat_id = chat_id /\ sent_msgs[i].quiz_id = quiz_id
     /\ sent_msgs[i].expires_at # NULL}

\* variant: ORDER BY id ASC, the oldest row
LastOf_oldest(S) == CHOOSE i \in S : \A j \in S : i <= j

\* ORDER BY id DESC LIMIT 1
LastOf(S) == CHOOSE i \in S : \A j \in S : j <= i

\* variant: expired from the expiry instant on (>= for >)
_quiz_expired_atExpiry(chat_id, quiz_id) ==
  IF ExpiryRows(chat_id, quiz_id) = {} THEN "None"
  ELSE IF now >= fromisoformat(sent_msgs[LastOf(ExpiryRows(chat_id, quiz_id))].expires_at)
       THEN "True" ELSE "False"

\* (the code stores only NULL or an isoformat() string in expires_at, so the
\* empty-string and unparsable branches of lines 463-465 are never taken)
_quiz_expired(chat_id, quiz_id) ==
  IF ExpiryRows(chat_id, quiz_id) = {} THEN "None"
  ELSE IF now > fromisoformat(sent_msgs[LastOf(ExpiryRows(chat_id, quiz_id))].expires_at)
       THEN "True" ELSE "False"

\* pending_names[(chat, user, quiz)] = True: a new key goes last, an old key
\* keeps its place
SetPending(key) ==
  IF \E i \in 1..Len(pending_names) : pending_names[i] = key
  THEN pending_names ELSE Append(pending_names, key)

\* del pending_names[key]
DelPending(key) == SelectSeq(pending_names, LAMBDA k : k # key)

\* INSERT OR REPLACE INTO participant_names: the row with the same unique key
\* is deleted, then the new row is inserted
UpsertName(chat_id, user_id, quiz_id, name) ==
  {p \in participant_names :
     ~(p.origin_chat_id = chat_id /\ p.user_id = user_id /\ p.quiz_id = quiz_id)}
  \cup {[origin_chat_id |-> chat_id, user_id |-> user_id, quiz_id |-> quiz_id, name |-> name]}

\* SELECT name FROM participant_names WHERE ...; row["name"] if row else the default
DefaultName == "Student"

NameOf(chat_id, user_id, quiz_id) ==
  IF HasName(chat_id, user_id, quiz_id)
  THEN (CHOOSE p \in participant_names :
          p.origin_chat_id = chat_id /\ p.user_id = user_id /\ p.quiz_id = quiz_id).name
  ELSE DefaultName

\* the responses of (chat, user) to the questions q_ids:
\* ... FROM responses WHERE chat_id=? AND user_id=? AND question_id IN (q_ids)
ResponsesIn(chat_id, user_id, q_ids) ==
  {r \in responses : r.chat_id = chat_id /\ r.user_id = user_id /\ r.question_id \in q_ids}

\* SELECT COUNT(DISTINCT question_id) ...
answered_cnt(chat_id, user_id, q_ids) ==
  Cardinality({r.question_id : r \in ResponsesIn(chat_id, user_id, q_ids)})

\* variant: COUNT(*) for SUM(is_correct)
SumCorrect_countAll(rows) == Cardinality(rows)

\* SELECT SUM(is_correct) ...  (or 0 when there is no row)
RECURSIVE SumCorrect(_)
SumCorrect(rows) ==
  IF rows = {} THEN 0
  ELSE LET r == CHOOSE x \in rows : TRUE
       IN r.is_correct + SumCorrect(rows \ {r})

\* the user_progress upsert of lines 1456-1464: UPDATE finished_at of the rows
\* of (chat, user, quiz) when there is one, else INSERT a row
ProgressRows(chat_id, user_id, quiz_id) ==
  {p \in user_progress :
     p.origin_chat_id = chat_id /\ p.user_id = user_id /\ p.quiz_id = quiz_id}

WriteFinished(chat_id, user_id, quiz_id) ==
  IF ProgressRows(chat_id, user_id, quiz_id) # {}
  THEN {IF p \in ProgressRows(chat_id, user_id, quiz_id)
        THEN [p EXCEPT !.finished_at = isoformat(now)] ELSE p : p \in user_progress}
  ELSE user_progress \cup
       {[origin_chat_id |-> chat_id, user_id |-> user_id, quiz_id |-> quiz_id,
         started_at |-> isoformat(now), finished_at |-> isoformat(now)]}

(* ------------------------------- Init ---------------------------------- *)
\* The store after the owner has authored two quizzes: quiz 1 with the
\* questions 1 and 2, quiz 2 with question 3, two options each, one correct.
InitQuizzes == {[id |-> 1, is_archived |-> 0], [id |-> 2, is_archived |-> 0]}

InitQuestions ==
  {[id |-> 1, quiz_id |-> 1, text |-> "q1", media_bundle_id |-> 0],
   [id |-> 2, quiz_id |-> 1, text |-> "q2", media_bundle_id |-> 0],
   [id |-> 3, quiz_id |-> 2, text |-> "q3", media_bundle_id |-> 0]}

InitOptions ==
  {[id |-> 1, question_id |-> 1, option_index |-> 0, text |-> "a", is_correct |-> 1],
   [id |-> 2, question_id |-> 1, option_index |-> 1, text |-> "b", is_correct |-> 0],
   [id |-> 3, question_id |-> 2, option_index |-> 0, text |-> "a", is_correct |-> 0],
   [id |-> 4, question_id |-> 2, option_index |-> 1, text |-> "b", is_correct |-> 1],
   [id |-> 5, question_id |-> 3, option_index |-> 0, text |-> "a", is_correct |-> 1],
   [id |-> 6, question_id |-> 3, option_index |-> 1, text |-> "b", is_correct |-> 0]}

\* a slot with no on_answer invocation in flight
Idle ==
  [pc |-> "idle", user_id |-> 0, chat_id |-> 0, question_id |-> 0, option_index |-> 0,
   quiz_id |-> 0, is_correct |-> 0, total |-> 0, n |-> 0]

\* a reply of the bot: a callback popup or a message in the chat; ref is what it
\* is about: the callback data of the answer event a rejection popup answers,
\* else the id of the question or quiz
Reply(kind, chat_id, user_id, ref) ==
  [kind |-> kind, chat_id |-> chat_id, user_id |-> user_id, ref |-> ref]

\* no _do_publish invocation in flight
NoPass ==
  [active |-> FALSE, chat_id |-> 0, quiz_id |-> 0, expires_at |-> NULL, qs |-> <<>>,
   sent_bundles |-> {}, stage |-> "", queue |-> <<>>]

\* state.clear(): no conversation state, no data
NoEdit == [state |-> "", question_id |-> 0, n |-> 0, i |-> 0]

\* BuildSession(): the defaults of the dataclass (0 stands for None)
BuildSession ==
  [quiz_id |-> 0, tmp_question_id |-> 0, options_needed |-> 0, options_collected |-> 0,
   att_count |-> 0]

\* an FSM context after state.clear().  created is not in the code: it keeps
\* the id of the question this conversation inserted, for the properties
NoConversation == [state |-> "", created |-> 0]

\* no send logged, logging off
NoLog == [on |-> FALSE, sends |-> <<>>, tried |-> <<>>, waited |-> 0]

\* the state with the authored store and the participants P, nothing else done
InitWith(P) ==
  /\ now = 0
  /\ quizzes = InitQuizzes
  /\ questions = InitQuestions
  /\ options = InitOptions
  /\ question_attachments = {}
  /\ media_bundles = {}
  /\ media_bundle_attachments = {}
  /\ responses = {}
  /\ participant_names = P
  /\ user_progress = {}
  /\ sent_msgs = <<>>
  /\ pending_names = <<>>
  /\ handlers = [h \in Slots |-> Idle]
  /\ outbox = Reply("", 0, 0, 0)
  /\ nevents = 0
  /\ tally = [k \in {} |-> 0]
  /\ nwrites = [k \in {} |-> 0]
  /\ nfinals = [k \in {} |-> 0]
  /\ pass = NoPass
  /\ npasses = 0
  /\ next_message_id = 1
  /\ sqlite_sequence = [quizzes |-> 2, questions |-> 3, options |-> 6,
                        question_attachments |-> 0, media_bundles |-> 0,
                        media_bundle_attachments |-> 0]
  /\ edit_state = NoEdit
  /\ build_session = BuildSession
  /\ build_state = [c \in AuthorChats |-> NoConversation]
  /\ nedits = 0
  /\ log = NoLog

Init == InitWith({})

(* --------------------------- begin and name ---------------------------- *)
\* variant: the begin event is not checked against the expiry of the session
cb_start_quiz_noExpiry(user_id, chat_id, quiz_id) ==
  /\ IF ~HasName(chat_id, user_id, quiz_id)
     THEN /\ pending_names' = SetPending(<<chat_id, user_id, quiz_id>>)
          /\ \E delivered \in BOOLEAN :
               outbox' = Reply(IF delivered THEN "name_prompt" ELSE "prompt_error",
                               chat_id, user_id, quiz_id)
     ELSE /\ outbox' = Reply("good_luck", chat_id, user_id, quiz_id)
          /\ UNCHANGED pending_names
  /\ UNCHANGED <<now, storeVars, responses, participant_names, user_progress, handlers,
                 ghostVars, publishVars>>

\* variant: a begin event asks for the name of a user who has one
cb_start_quiz_askAgain(user_id, chat_id, quiz_id) ==
  /\ IF _quiz_expired(chat_id, quiz_id) = "True"
     THEN /\ outbox' = Reply("begin_expired", chat_id, user_id, quiz_id)
          /\ UNCHANGED pending_names
     ELSE /\ pending_names' = SetPending(<<chat_id, user_id, quiz_id>>)
          /\ \E delivered \in BOOLEAN :
               outbox' = Reply(IF delivered THEN "name_prompt" ELSE "prompt_error",
                               chat_id, user_id, quiz_id)
  /\ UNCHANGED <<now, storeVars, responses, participant_names, user_progress, handlers,
                 ghostVars, publishVars>>

\* cb_start_quiz: the "begin" control of a head announcement
cb_start_quiz(user_id, chat_id, quiz_id) ==
  /\ IF _quiz_expired(chat_id, quiz_id) = "True"
     THEN /\ outbox' = Reply("begin_expired", chat_id, user_id, quiz_id)
          /\ UNCHANGED pending_names
     ELSE IF ~HasName(chat_id, user_id, quiz_id)
     THEN /\ pending_names' = SetPending(<<chat_id, user_id, quiz_id>>)
          /\ \E delivered \in BOOLEAN :
               outbox' = Reply(IF delivered THEN "name_prompt" ELSE "prompt_error",
                               chat_id, user_id, quiz_id)
     ELSE /\ outbox' = Reply("good_luck", chat_id, user_id, quiz_id)
          /\ UNCHANGED pending_names
  /\ UNCHANGED <<now, storeVars, responses, participant_names, user_progress, handlers,
                 ghostVars, publishVars>>

\* catch_name_in_group: a free-text message of a group member
PendingOf(chat_id, user_id) ==
  {i \in 1..Len(pending_names) :
     pending_names[i][1] = chat_id /\ pending_names[i][2] = user_id}

\* variant: the pending entry inserted last is taken
FirstOf_newest(S) == CHOOSE i \in S : \A j \in S : j <= i

FirstOf(S) == CHOOSE i \in S : \A j \in S : i <= j

catch_name_in_group(user_id, chat_id, text) ==
  IF PendingOf(chat_id, user_id) = {} \/ strip(text) = ""
  THEN UNCHANGED vars
  ELSE LET key == pending_names[FirstOf(PendingOf(chat_id, user_id))] IN
       /\ participant_names' = UpsertName(key[1], user_id, key[3], strip(text))
       /\ pending_names' = DelPending(key)
       /\ outbox' = Reply("name_saved", chat_id, user_id, key[3])
       /\ UNCHANGED <<now, storeVars, responses, user_progress, handlers, ghostVars,
                      publishVars>>

(* ------------------------------ on_answer ------------------------------ *)
\* the quiz of a question row: qrow["quiz_id"]
QuizOf(question_id) == (CHOOSE q \in QuestionRows(question_id) : TRUE).quiz_id

\* variant: no lookup of an earlier response before the INSERT
AnswerGuard_noPrev(chat_id, user_id, question_id, target_user_id) ==
  IF target_user_id # 0 /\ user_id # target_user_id THEN "other_user"
  ELSE IF QuestionRows(question_id) = {} THEN "no_question"
  ELSE IF _quiz_expired(chat_id, QuizOf(question_id)) = "True" THEN "expired"
  ELSE IF ~HasName(chat_id, user_id, QuizOf(question_id)) THEN "need_name"
  ELSE "insert"

\* variant: the target-user guard comes after the name guard
AnswerGuard_targetLate(chat_id, user_id, question_id, target_user_id) ==
  IF QuestionRows(question_id) = {} THEN "no_question"
  ELSE IF _quiz_expired(chat_id, QuizOf(question_id)) = "True" THEN "expired"
  ELSE IF ~HasName(chat_id, user_id, QuizOf(question_id)) THEN "need_name"
  ELSE IF target_user_id # 0 /\ user_id # target_user_id THEN "other_user"
  ELSE IF PrevResponse(chat_id, user_id, question_id) THEN "already"
  ELSE "insert"

\* variant: no name guard
AnswerGuard_noName(chat_id, user_id, question_id, target_user_id) ==
  IF target_user_id # 0 /\ user_id # target_user_id THEN "other_user"
  ELSE IF QuestionRows(question_id) = {} THEN "no_question"
  ELSE IF _quiz_expired(chat_id, QuizOf(question_id)) = "True" THEN "expired"
  ELSE IF PrevResponse(chat_id, user_id, question_id) THEN "already"
  ELSE "insert"

\* variant: the name guard comes before the expiry guard
AnswerGuard_nameFirst(chat_id, user_id, question_id, target_user_id) ==
  IF target_user_id # 0 /\ user_id # target_user_id THEN "other_user"
  ELSE IF QuestionRows(question_id) = {} THEN "no_question"
  ELSE IF ~HasName(chat_id, user_id, QuizOf(question_id)) THEN "need_name"
  ELSE IF _quiz_expired(chat_id, QuizOf(question_id)) = "True" THEN "expired"
  ELSE IF PrevResponse(chat_id, user_id, question_id) THEN "already"
  ELSE "insert"

\* The guards of on_answer, lines 1398-1420, in the order the code takes them.
AnswerGuard(chat_id, user_id, question_id, target_user_id) ==
  IF target_user_id # 0 /\ user_id # target_user_id THEN "other_user"
  ELSE IF QuestionRows(question_id) = {} THEN "no_question"
  ELSE IF _quiz_expired(chat_id, QuizOf(question_id)) = "True" THEN "expired"
  ELSE IF ~HasName(chat_id, user_id, QuizOf(question_id)) THEN "need_name"
  ELSE IF PrevResponse(chat_id, user_id, question_id) THEN "already"
  ELSE "insert"

\* the row on_answer inserts, lines 1422-1430
NewResponse(chat_id, user_id, question_id, option_index) ==
  [chat_id |-> chat_id, user_id |-> user_id, question_id |-> question_id,
   option_index |-> option_index,
   is_correct |-> GradeOption(question_id, option_index),
   answered_at |-> isoformat(now)]

\* history counter of a key, 0 when never counted
Count(f, key) == IF key \in DOMAIN f THEN f[key] ELSE 0

NoTally == [passed |-> 0, already |-> 0, store_error |-> 0]

TallyOf(key) == IF key \in DOMAIN tally THEN tally[key] ELSE NoTally

\* one more event of the triple got past the name guard and ended as `how`
Tallied(key, how) ==
  [k \in DOMAIN tally \cup {key} |->
     IF k # key THEN tally[k]
     ELSE [passed |-> TallyOf(key).passed + 1,
           already |-> TallyOf(key).already + (IF how = "already" THEN 1 ELSE 0),
           store_error |-> TallyOf(key).store_error + (IF how = "store_error" THEN 1 ELSE 0)]]

Bump(f, key) ==
  [k \in DOMAIN f \cup {key} |-> IF k = key THEN Count(f, key) + 1 ELSE f[k]]

\* on_answer from the arrival of the event to its first transport call that
\* follows a change of state (lines 1391-1443): the guards, then the INSERT.
\* Slot h is the lowest free one.
on_answer(h, user_id, chat_id, question_id, option_index, target_user_id) ==
  LET verdict == AnswerGuard(chat_id, user_id, question_id, target_user_id)
      ins == InsertResponse(responses,
                            NewResponse(chat_id, user_id, question_id, option_index))
      data == <<"ans", question_id, option_index, target_user_id>>
  IN
  /\ handlers[h].pc = "idle"
  /\ \A g \in Slots : g < h => handlers[g].pc # "idle"
  /\ nevents < MaxAnswers
  /\ nevents' = nevents + 1
  /\ \/ /\ verdict \in {"other_user", "no_question", "expired", "already"}
        /\ outbox' = Reply(verdict, chat_id, user_id, data)
        /\ tally' = IF verdict = "already"
                    THEN Tallied(<<chat_id, user_id, question_id>>, "already") ELSE tally
        /\ UNCHANGED <<responses, pending_names, handlers>>
     \/ /\ verdict = "need_name"
        /\ pending_names' = SetPending(<<chat_id, user_id, QuizOf(question_id)>>)
        /\ \E delivered \in BOOLEAN :
             outbox' = Reply(IF delivered THEN "name_first" ELSE "prompt_error",
                             chat_id, user_id, QuizOf(question_id))
        /\ UNCHANGED <<responses, handlers, tally>>
     \/ /\ verdict = "insert"
        /\ responses' = ins.table
        /\ IF ins.ok
           THEN /\ handlers' = [handlers EXCEPT ![h] =
                     [pc |-> "ack", user_id |-> user_id, chat_id |-> chat_id,
                      question_id |-> question_id, option_index |-> option_index,
                      quiz_id |-> QuizOf(question_id),
                      is_correct |-> GradeOption(question_id, option_index),
                      total |-> 0, n |-> 0]]
                /\ tally' = Tallied(<<chat_id, user_id, question_id>>, "stored")
                /\ UNCHANGED outbox
           ELSE /\ outbox' = Reply("store_error", chat_id, user_id, data)
                /\ tally' = Tallied(<<chat_id, user_id, question_id>>, "store_error")
                /\ UNCHANGED handlers
        /\ UNCHANGED pending_names
  /\ UNCHANGED <<now, storeVars, participant_names, user_progress, nwrites, nfinals,
                 publishVars>>

\* what becomes of the celebratory send: no sticker or animation is configured,
\* the send goes through, or the transport raises
Celebrations == {"none", "sent", "failed"}

\* variant: the failure of the celebratory send is not caught
_celebrate_unguarded(celebration) == IF celebration = "failed" THEN "raised" ELSE "returned"

\* _celebrate: whatever the send does, the call returns (except Exception: pass)
_celebrate(celebration) == "returned"

\* await cb.answer(feedback, show_alert=True), line 1443: a transport call; when it
\* raises, the handler ends there.  Then await _celebrate(...), line 1444, which
\* changes no state; the handler goes on when it returns.
answer_ack(h, celebration) ==
  LET me == handlers[h] IN
  /\ me.pc = "ack"
  /\ \E delivered \in BOOLEAN :
       IF delivered
       THEN /\ handlers' = [handlers EXCEPT ![h] =
                 IF _celebrate(celebration) = "returned"
                 THEN [me EXCEPT !.pc = "check"] ELSE Idle]
            /\ outbox' = [kind |-> IF me.is_correct = 1 THEN "correct" ELSE "wrong",
                          chat_id |-> me.chat_id, user_id |-> me.user_id,
                          ref |-> me.question_id, celebration |-> celebration]
       ELSE /\ handlers' = [handlers EXCEPT ![h] = Idle]
            /\ outbox' = Reply("ack_error", me.chat_id, me.user_id, me.question_id)
  /\ UNCHANGED <<now, storeVars, responses, participant_names, user_progress,
                 pending_names, ghostVars, publishVars>>

\* "check finish", lines 1446-1464
check_finish(h) ==
  LET me == handlers[h]
      q_ids == get_quiz_question_ids(me.quiz_id)
      key == <<me.chat_id, me.user_id, me.quiz_id>>
  IN
  /\ me.pc = "check"
  /\ IF answered_cnt(me.chat_id, me.user_id, q_ids) = Cardinality(q_ids)
     THEN /\ user_progress' = WriteFinished(me.chat_id, me.user_id, me.quiz_id)
          /\ nwrites' = Bump(nwrites, key)
          /\ handlers' = [handlers EXCEPT ![h] =
               [me EXCEPT !.pc = "final", !.n = Cardinality(q_ids),
                          !.total = SumCorrect(ResponsesIn(me.chat_id, me.user_id, q_ids))]]
     ELSE /\ handlers' = [handlers EXCEPT ![h] = Idle]
          /\ UNCHANGED <<user_progress, nwrites>>
  /\ UNCHANGED <<now, storeVars, responses, participant_names, pending_names, outbox,
                 nevents, tally, nfinals, publishVars>>

\* lines 1465-1473: the final popup (its failure is swallowed), then the name is
\* read and the public final result is sent; TelegramBadRequest is swallowed, any
\* other transport error escapes the handler
final_result(h) ==
  LET me == handlers[h]
      key == <<me.chat_id, me.user_id, me.quiz_id>>
  IN
  /\ me.pc = "final"
  /\ \E outcome \in {"sent", "bad_request", "error"} :
       IF outcome = "sent"
       THEN /\ outbox' = [kind |-> "final", chat_id |-> me.chat_id, user_id |-> me.user_id,
                          ref |-> me.quiz_id, score |-> me.total, total |-> me.n,
                          name |-> NameOf(me.chat_id, me.user_id, me.quiz_id)]
            /\ nfinals' = Bump(nfinals, key)
       ELSE /\ outbox' = Reply("final_" \o outcome, me.chat_id, me.user_id, me.quiz_id)
            /\ UNCHANGED nfinals
  /\ handlers' = [handlers EXCEPT ![h] = Idle]
  /\ UNCHANGED <<now, storeVars, responses, participant_names, user_progress,
                 pending_names, nevents, tally, nwrites, publishVars>>

(* ------------------------------- publish ------------------------------- *)
\* the rows of a SELECT in the order of its ORDER BY (ties by rowid)
RECURSIVE SeqOf(_)
SeqOf(S) ==
  IF S = {} THEN <<>>
  ELSE LET x == CHOOSE y \in S : TRUE IN <<x>> \o SeqOf(S \ {x})

OrderById(rows) == SortSeq(SeqOf(rows), LAMBDA a, b : a.id < b.id)

OrderByPosition(rows) ==
  SortSeq(SeqOf(rows),
          LAMBDA a, b : a.position < b.position \/ (a.position = b.position /\ a.id < b.id))

OrderByIndex(rows) ==
  SortSeq(SeqOf(rows),
          LAMBDA a, b : a.option_index < b.option_index
                        \/ (a.option_index = b.option_index /\ a.id < b.id))

\* options_for_question
options_for_question(question_id) ==
  OrderByIndex({o \in options : o.question_id = question_id})

\* build_options_kb: one control per option, callback data ans:<qid>:<idx>:<target>
build_options_kb(question_id, target_user_id) ==
  [i \in 1..Len(options_for_question(question_id)) |->
     <<"ans", question_id, options_for_question(question_id)[i].option_index, target_user_id>>]

\* get_question_atts, get_bundle_atts
get_question_atts(question_id) ==
  OrderByPosition({a \in question_attachments : a.question_id = question_id})

\* variant: the attachments of a bundle in descending position
get_bundle_atts_descending(bundle_id) ==
  SortSeq(SeqOf({a \in media_bundle_attachments : a.bundle_id = bundle_id}),
          LAMBDA a, b : a.position > b.position)

get_bundle_atts(bundle_id) ==
  OrderByPosition({a \in media_bundle_attachments : a.bundle_id = bundle_id})

\* one outbound unit of a pass
Unit(kind, ref, file_id, caption, controls) ==
  [kind |-> kind, ref |-> ref, file_id |-> file_id, caption |-> caption, controls |-> controls]

\* the head announcement with its begin control, lines 1169-1171
HeadUnit(quiz_id) == Unit("head", quiz_id, "", "", <<<<"start", quiz_id>>>>)

\* the units of a bundle, lines 1181-1188: no caption, no controls
BundleUnits(bundle_id) ==
  [i \in 1..Len(get_bundle_atts(bundle_id)) |->
     Unit(get_bundle_atts(bundle_id)[i].kind, bundle_id,
          get_bundle_atts(bundle_id)[i].file_id, "", <<>>)]

\* variant: every own attachment of a question carries its text and controls
QuestionUnits_allControls(q) ==
  IF Len(get_question_atts(q.id)) > 0
  THEN [i \in 1..Len(get_question_atts(q.id)) |->
          Unit(get_question_atts(q.id)[i].kind, q.id, get_question_atts(q.id)[i].file_id,
               q.text, build_options_kb(q.id, 0))]
  ELSE <<Unit("text", q.id, "", q.text, build_options_kb(q.id, 0))>>

\* the units of a question, lines 1195-1226: the first own attachment carries the
\* text and the controls, the others nothing; without attachments the text does
QuestionUnits(q) ==
  IF Len(get_question_atts(q.id)) > 0
  THEN [i \in 1..Len(get_question_atts(q.id)) |->
          Unit(get_question_atts(q.id)[i].kind, q.id, get_question_atts(q.id)[i].file_id,
               IF i = 1 THEN q.text ELSE "",
               IF i = 1 THEN build_options_kb(q.id, 0) ELSE <<>>)]
  ELSE <<Unit("text", q.id, "", q.text, build_options_kb(q.id, 0))>>

\* the seconds slept before the retry, lines 1153-1154: the retry_after of the
\* exception, 1 when it has none or says 0
retry_wait(retry_after) == IF retry_after = 0 THEN 1 ELSE retry_after

\* variant: every failure of the first attempt is retried
_safe_send_retryAny(first, second) ==
  IF first = "ok" THEN [ok |-> TRUE, attempts |-> 1]
  ELSE [ok |-> (second = "ok"), attempts |-> 2]

\* _safe_send, lines 1144-1159: the outcome of the first attempt, and of the
\* second when there is one; a second attempt follows TelegramRetryAfter only
_safe_send(first, second) ==
  IF first = "ok" THEN [ok |-> TRUE, attempts |-> 1]
  ELSE IF first = "retry_after" THEN [ok |-> (second = "ok"), attempts |-> 2]
  ELSE [ok |-> FALSE, attempts |-> 1]

\* variant: the bundle of a question is sent with every question that refers to it
RECURSIVE NextSend_everyQuestion(_)
NextSend_everyQuestion(p) ==
  IF p.queue # <<>> THEN p
  ELSE IF p.stage = "bundle"
  THEN [p EXCEPT !.stage = "own", !.queue = QuestionUnits(Head(p.qs)),
                 !.sent_bundles = @ \cup {Head(p.qs).media_bundle_id}]
  ELSE LET rest == IF p.stage = "own" THEN Tail(p.qs) ELSE p.qs IN
       IF rest = <<>> THEN NoPass
       ELSE IF Head(rest).media_bundle_id # 0
       THEN NextSend_everyQuestion([p EXCEPT !.qs = rest, !.stage = "bundle",
                                             !.queue = BundleUnits(Head(rest).media_bundle_id)])
       ELSE [p EXCEPT !.qs = rest, !.stage = "own", !.queue = QuestionUnits(Head(rest))]

\* the loop of _do_publish between two sends: p has an empty queue; take the own
\* units of the question whose bundle was just sent, or go to the next question
RECURSIVE NextSend(_)
NextSend(p) ==
  IF p.queue # <<>> THEN p
  ELSE IF p.stage = "bundle"
  THEN [p EXCEPT !.stage = "own", !.queue = QuestionUnits(Head(p.qs)),
                 !.sent_bundles = @ \cup {Head(p.qs).media_bundle_id}]
  ELSE LET rest == IF p.stage = "own" THEN Tail(p.qs) ELSE p.qs IN
       IF rest = <<>> THEN NoPass
       ELSE IF Head(rest).media_bundle_id # 0
               /\ Head(rest).media_bundle_id \notin p.sent_bundles
       THEN NextSend([p EXCEPT !.qs = rest, !.stage = "bundle",
                               !.queue = BundleUnits(Head(rest).media_bundle_id)])
       ELSE [p EXCEPT !.qs = rest, !.stage = "own", !.queue = QuestionUnits(Head(rest))]

\* variant: a publish pass clears the responses of the channel to the quiz
_do_publish_reset(chat_id, quiz_id, expires_at) ==
  LET quiz == {z \in quizzes : z.id = quiz_id /\ z.is_archived = 0}
      qs == OrderById({q \in questions : q.quiz_id = quiz_id})
  IN
  /\ ~pass.active
  /\ npasses < MaxPasses
  /\ npasses' = npasses + 1
  /\ IF quiz = {} \/ qs = <<>>
     THEN /\ outbox' = Reply("invalid_quiz", chat_id, 0, quiz_id)
          /\ UNCHANGED <<pass, responses, log>>
     ELSE /\ pass' = [active |-> TRUE, chat_id |-> chat_id, quiz_id |-> quiz_id,
                      expires_at |-> expires_at, qs |-> qs, sent_bundles |-> {},
                      stage |-> "head", queue |-> <<HeadUnit(quiz_id)>>]
          /\ responses' = {r \in responses :
                             ~(r.chat_id = chat_id
                               /\ r.question_id \in get_quiz_question_ids(quiz_id))}
          /\ log' = [log EXCEPT !.sends = <<>>, !.tried = <<>>, !.waited = 0]
          /\ UNCHANGED outbox
  /\ UNCHANGED <<now, storeVars, participant_names, user_progress, pending_names, handlers,
                 ghostVars, sent_msgs, next_message_id>>

\* variant: a quiz without questions is published like any other
_do_publish_noQuestions(chat_id, quiz_id, expires_at) ==
  LET quiz == {z \in quizzes : z.id = quiz_id /\ z.is_archived = 0}
      qs == OrderById({q \in questions : q.quiz_id = quiz_id})
  IN
  /\ ~pass.active
  /\ npasses < MaxPasses
  /\ npasses' = npasses + 1
  /\ IF quiz = {}
     THEN /\ outbox' = Reply("invalid_quiz", chat_id, 0, quiz_id)
          /\ UNCHANGED <<pass, log>>
     ELSE /\ pass' = [active |-> TRUE, chat_id |-> chat_id, quiz_id |-> quiz_id,
                      expires_at |-> expires_at, qs |-> qs, sent_bundles |-> {},
                      stage |-> "head", queue |-> <<HeadUnit(quiz_id)>>]
          /\ log' = [log EXCEPT !.sends = <<>>, !.tried = <<>>, !.waited = 0]
          /\ UNCHANGED outbox
  /\ UNCHANGED <<now, storeVars, answerVars, ghostVars, sent_msgs, next_message_id>>

\* _do_publish up to its first send, lines 1161-1171.  The passes of a run are
\* taken one after the other: a pass starts when none is in flight.
_do_publish(chat_id, quiz_id, expires_at) ==
  LET quiz == {z \in quizzes : z.id = quiz_id /\ z.is_archived = 0}
      qs == OrderById({q \in questions : q.quiz_id = quiz_id})
  IN
  /\ ~pass.active
  /\ npasses < MaxPasses
  /\ npasses' = npasses + 1
  /\ IF quiz = {} \/ qs = <<>>
     THEN /\ outbox' = Reply("invalid_quiz", chat_id, 0, quiz_id)
          /\ UNCHANGED <<pass, log>>
     ELSE /\ pass' = [active |-> TRUE, chat_id |-> chat_id, quiz_id |-> quiz_id,
                      expires_at |-> expires_at, qs |-> qs, sent_bundles |-> {},
                      stage |-> "head", queue |-> <<HeadUnit(quiz_id)>>]
          /\ log' = [log EXCEPT !.sends = <<>>, !.tried = <<>>, !.waited = 0]
          /\ UNCHANGED outbox
  /\ UNCHANGED <<now, storeVars, answerVars, ghostVars, sent_msgs, next_message_id>>

\* cb_pub_duration_selected: the 12 h, 24 h and unlimited buttons
cb_pub_duration_selected(chat_id, quiz_id, sel) ==
  _do_publish(chat_id, quiz_id,
              IF sel = "none" THEN NULL
              ELSE isoformat(now + (IF sel = "12" THEN 12 ELSE 24)))

\* A typed message, where its characters matter, is the sequence of them.
DigitChars == <<"0", "1", "2", "3", "4", "5", "6", "7", "8", "9">>

DigitOf(c) == (CHOOSE i \in 1..10 : DigitChars[i] = c) - 1

IsDigit(c) == \E i \in 1..10 : DigitChars[i] = c

\* str(n) of a natural number
RECURSIVE str(_)
str(n) ==
  IF n < 10 THEN <<DigitChars[n + 1]>> ELSE str(n \div 10) \o <<DigitChars[(n % 10) + 1]>>

\* str.strip() of a sequence of characters
RECURSIVE lstrip(_)
lstrip(text) ==
  IF text # <<>> /\ Head(text) = " " THEN lstrip(Tail(text)) ELSE text

RECURSIVE rstrip(_)
rstrip(text) ==
  IF text # <<>> /\ text[Len(text)] = " " THEN rstrip(SubSeq(text, 1, Len(text) - 1)) ELSE text

\* the value of a sequence of digits, the first of them the most significant
RECURSIVE ValueOf(_)
ValueOf(digits) ==
  IF digits = <<>> THEN 0
  ELSE 10 * ValueOf(SubSeq(digits, 1, Len(digits) - 1)) + DigitOf(digits[Len(digits)])

\* int(text): blanks around the number are skipped, a sign may come first,
\* single underscores may stand between digits, and anything else raises
\* ValueError (ok is FALSE)
int(text) ==
  LET t == rstrip(lstrip(text))
      signed == t # <<>> /\ Head(t) \in {"+", "-"}
      body == IF signed THEN Tail(t) ELSE t
      grouped == /\ body # <<>>
                 /\ \A i \in 1..Len(body) :
                      \/ IsDigit(body[i])
                      \/ /\ body[i] = "_"
                         /\ 1 < i /\ i < Len(body)
                         /\ IsDigit(body[i - 1]) /\ IsDigit(body[i + 1])
      digits == SelectSeq(body, IsDigit)
      value == ValueOf(digits)
  IN IF grouped
     THEN [ok |-> TRUE, value |-> IF signed /\ Head(t) = "-" THEN 0 - value ELSE value]
     ELSE [ok |-> FALSE, value |-> 0]

\* variant: zero hours are taken
cb_pub_custom_hours_zeroTaken(chat_id, quiz_id, text) ==
  LET hours == int(text) IN
  IF ~hours.ok \/ hours.value < 0 \/ hours.value > 240
  THEN /\ outbox' = Reply("bad_hours", chat_id, 0, quiz_id)
       /\ UNCHANGED <<now, storeVars, answerVars, ghostVars, publishVars>>
  ELSE _do_publish(chat_id, quiz_id, isoformat(now + hours.value))

\* cb_pub_custom_hours: the message the owner typed for the number of hours
cb_pub_custom_hours(chat_id, quiz_id, text) ==
  LET hours == int(text) IN
  IF ~hours.ok \/ hours.value <= 0 \/ hours.value > 240
  THEN /\ outbox' = Reply("bad_hours", chat_id, 0, quiz_id)
       /\ UNCHANGED <<now, storeVars, answerVars, ghostVars, publishVars>>
  ELSE _do_publish(chat_id, quiz_id, isoformat(now + hours.value))

\* variant: a send that failed ends the pass
publish_send_abort(first, second, retry_after) ==
  LET m == _safe_send(first, second) IN
  /\ pass.active
  /\ sent_msgs' = IF m.ok
                  THEN Append(sent_msgs, [chat_id |-> pass.chat_id, quiz_id |-> pass.quiz_id,
                                          message_id |-> next_message_id,
                                          expires_at |-> pass.expires_at])
                  ELSE sent_msgs
  /\ next_message_id' = IF m.ok THEN next_message_id + 1 ELSE next_message_id
  /\ log' = IF log.on
             THEN [log EXCEPT
                     !.sends = Append(@, [unit |-> Head(pass.queue), ok |-> m.ok,
                                          message_id |-> IF m.ok THEN next_message_id ELSE 0]),
                     !.tried = SubSeq(<<first, second>>, 1, m.attempts),
                     !.waited = IF m.attempts = 2 THEN retry_wait(retry_after) ELSE 0]
             ELSE log
  /\ pass' = IF m.ok THEN NextSend([pass EXCEPT !.queue = Tail(@)]) ELSE NoPass
  /\ UNCHANGED <<now, storeVars, answerVars, outbox, ghostVars, npasses>>

\* variant: the unit is recorded whether it was sent or not
publish_send_recordAll(first, second, retry_after) ==
  LET m == _safe_send(first, second) IN
  /\ pass.active
  /\ sent_msgs' = Append(sent_msgs, [chat_id |-> pass.chat_id, quiz_id |-> pass.quiz_id,
                                     message_id |-> next_message_id,
                                     expires_at |-> pass.expires_at])
  /\ next_message_id' = IF m.ok THEN next_message_id + 1 ELSE next_message_id
  /\ log' = IF log.on
             THEN [log EXCEPT
                     !.sends = Append(@, [unit |-> Head(pass.queue), ok |-> m.ok,
                                          message_id |-> IF m.ok THEN next_message_id ELSE 0]),
                     !.tried = SubSeq(<<first, second>>, 1, m.attempts),
                     !.waited = IF m.attempts = 2 THEN retry_wait(retry_after) ELSE 0]
             ELSE log
  /\ pass' = NextSend([pass EXCEPT !.queue = Tail(@)])
  /\ UNCHANGED <<now, storeVars, answerVars, outbox, ghostVars, npasses>>

\* variant: the expiry of a record is computed from the clock when it is written
publish_send_expiryAtSend(first, second, retry_after) ==
  LET m == _safe_send(first, second) IN
  /\ pass.active
  /\ sent_msgs' = IF m.ok
                  THEN Append(sent_msgs, [chat_id |-> pass.chat_id, quiz_id |-> pass.quiz_id,
                                          message_id |-> next_message_id,
                                          expires_at |-> IF pass.expires_at = NULL THEN NULL
                                                         ELSE isoformat(now + MaxHours)])
                  ELSE sent_msgs
  /\ next_message_id' = IF m.ok THEN next_message_id + 1 ELSE next_message_id
  /\ log' = IF log.on
             THEN [log EXCEPT
                     !.sends = Append(@, [unit |-> Head(pass.queue), ok |-> m.ok,
                                          message_id |-> IF m.ok THEN next_message_id ELSE 0]),
                     !.tried = SubSeq(<<first, second>>, 1, m.attempts),
                     !.waited = IF m.attempts = 2 THEN retry_wait(retry_after) ELSE 0]
             ELSE log
  /\ pass' = NextSend([pass EXCEPT !.queue = Tail(@)])
  /\ UNCHANGED <<now, storeVars, answerVars, outbox, ghostVars, npasses>>

\* one send of the pass comes back: the unit is recorded when it was sent, and
\* the pass goes on to its next send whatever happened
publish_send(first, second, retry_after) ==
  LET m == _safe_send(first, second) IN
  /\ pass.active
  /\ sent_msgs' = IF m.ok
                  THEN Append(sent_msgs, [chat_id |-> pass.chat_id, quiz_id |-> pass.quiz_id,
                                          message_id |-> next_message_id,
                                          expires_at |-> pass.expires_at])
                  ELSE sent_msgs
  /\ next_message_id' = IF m.ok THEN next_message_id + 1 ELSE next_message_id
  /\ log' = IF log.on
             THEN [log EXCEPT
                     !.sends = Append(@, [unit |-> Head(pass.queue), ok |-> m.ok,
                                          message_id |-> IF m.ok THEN next_message_id ELSE 0]),
                     !.tried = SubSeq(<<first, second>>, 1, m.attempts),
                     !.waited = IF m.attempts = 2 THEN retry_wait(retry_after) ELSE 0]
             ELSE log
  /\ pass' = NextSend([pass EXCEPT !.queue = Tail(@)])
  /\ UNCHANGED <<now, storeVars, answerVars, outbox, ghostVars, npasses>>

(* ------------------------------ authoring ------------------------------ *)
\* what the authoring handlers leave alone
notAuthored == <<now, quizzes, question_attachments, media_bundles,
                 media_bundle_attachments, answerVars, ghostVars, publishVars, buildVars>>

\* cb_m_delete: DELETE FROM questions WHERE id=?; no other table is touched.
\* The handler does not look at the sender; the reply keeps who pressed
cb_m_delete(from_user, question_id) ==
  /\ nedits < MaxEdits
  /\ nedits' = nedits + 1
  /\ questions' = {q \in questions : q.id # question_id}
  /\ outbox' = Reply("question_deleted", 0, from_user, question_id)
  /\ UNCHANGED <<notAuthored, options, sqlite_sequence, edit_state>>

\* variant: the questions of the quiz go with it
cb_del_quiz_do_cascade(quiz_id) ==
  /\ nedits < MaxEdits
  /\ nedits' = nedits + 1
  /\ quizzes' = {z \in quizzes : z.id # quiz_id}
  /\ questions' = {q \in questions : q.quiz_id # quiz_id}
  /\ outbox' = Reply("quiz_deleted", 0, 0, quiz_id)
  /\ UNCHANGED <<now, options, question_attachments, media_bundles,
                 media_bundle_attachments, answerVars, ghostVars, publishVars,
                 sqlite_sequence, edit_state, buildVars>>

\* cb_del_quiz_do: DELETE FROM quizzes WHERE id=?; the schema declares no
\* foreign key, so no other table is touched
cb_del_quiz_do(quiz_id) ==
  /\ nedits < MaxEdits
  /\ nedits' = nedits + 1
  /\ quizzes' = {z \in quizzes : z.id # quiz_id}
  /\ outbox' = Reply("quiz_deleted", 0, 0, quiz_id)
  /\ UNCHANGED <<now, questions, options, question_attachments, media_bundles,
                 media_bundle_attachments, answerVars, ghostVars, publishVars,
                 sqlite_sequence, edit_state, buildVars>>

\* insert_question_with_data without attachments: the question row, then one
\* option row per text, the one at correct_index0 flagged
insert_question_with_data(quiz_id, q_text, opts, correct_index0) ==
  LET qid == sqlite_sequence.questions + 1 IN
  /\ nedits < MaxEdits
  /\ nedits' = nedits + 1
  /\ questions' = questions \cup
       {[id |-> qid, quiz_id |-> quiz_id, text |-> q_text, media_bundle_id |-> 0]}
  /\ options' = options \cup
       {[id |-> sqlite_sequence.options + i, question_id |-> qid, option_index |-> i - 1,
         text |-> opts[i], is_correct |-> IF i - 1 = correct_index0 THEN 1 ELSE 0] :
        i \in 1..Len(opts)}
  /\ sqlite_sequence' = [sqlite_sequence EXCEPT !.questions = qid, !.options = @ + Len(opts)]
  /\ UNCHANGED <<notAuthored, outbox, edit_state>>

\* cb_m_edit_opts: the owner picks a question to replace the options of
cb_m_edit_opts(question_id) ==
  /\ nedits < MaxEdits
  /\ nedits' = nedits + 1
  /\ edit_state' = [edit_state EXCEPT !.state = "waiting_count", !.question_id = question_id]
  /\ outbox' = Reply("ask_count", 0, 0, question_id)
  /\ UNCHANGED <<notAuthored, questions, options, sqlite_sequence>>

\* m_opts_count: the number of options, 2..10
m_opts_count(n) ==
  /\ edit_state.state = "waiting_count"
  /\ IF n < 2 \/ n > 10
     THEN /\ outbox' = Reply("bad_count", 0, 0, edit_state.question_id)
          /\ UNCHANGED edit_state
     ELSE /\ edit_state' = [edit_state EXCEPT !.state = "waiting_text", !.n = n, !.i = 0]
          /\ outbox' = Reply("ask_text", 0, 0, edit_state.question_id)
  /\ UNCHANGED <<notAuthored, questions, options, sqlite_sequence, nedits>>

\* m_opts_text: the first text deletes the old options of the question; every
\* text inserts one option, not flagged correct
m_opts_text(text) ==
  LET qid == edit_state.question_id
      kept == IF edit_state.i = 0 THEN {o \in options : o.question_id # qid} ELSE options
  IN
  /\ edit_state.state = "waiting_text"
  /\ options' = kept \cup
       {[id |-> sqlite_sequence.options + 1, question_id |-> qid,
         option_index |-> edit_state.i, text |-> strip(text), is_correct |-> 0]}
  /\ sqlite_sequence' = [sqlite_sequence EXCEPT !.options = @ + 1]
  /\ edit_state' = [edit_state EXCEPT
                      !.i = @ + 1,
                      !.state = IF edit_state.i + 1 < edit_state.n
                                THEN "waiting_text" ELSE "waiting_correct"]
  /\ outbox' = Reply(IF edit_state.i + 1 < edit_state.n THEN "ask_text" ELSE "ask_correct",
                     0, 0, qid)
  /\ UNCHANGED <<notAuthored, questions, nedits>>

\* m_opts_correct: the 1-based number of the correct option
m_opts_correct(k) ==
  LET qid == edit_state.question_id IN
  /\ edit_state.state = "waiting_correct"
  /\ IF k < 1 \/ k > edit_state.n
     THEN /\ outbox' = Reply("bad_correct", 0, 0, qid)
          /\ UNCHANGED <<options, edit_state>>
     ELSE /\ options' = {IF o.question_id # qid THEN o
                         ELSE [o EXCEPT !.is_correct = IF o.option_index = k - 1 THEN 1 ELSE 0] :
                         o \in options}
          /\ edit_state' = NoEdit
          /\ outbox' = Reply("options_updated", 0, 0, qid)
  /\ UNCHANGED <<notAuthored, questions, sqlite_sequence, nedits>>

(* -------------------------------- merge -------------------------------- *)
\* the tables a merge writes, as one value
Store ==
  [quizzes |-> quizzes, questions |-> questions, options |-> options,
   question_attachments |-> question_attachments, media_bundles |-> media_bundles,
   media_bundle_attachments |-> media_bundle_attachments,
   sqlite_sequence |-> sqlite_sequence]

\* bundle_map = {}
NoBundles == [b \in {} |-> 0]

\* a local variable: the value v, computed once, under the name Body gives it
Local(v, Body(_)) == CHOOSE y \in {Body(x) : x \in {v}} : TRUE

\* variant: bundle_map is not looked up, every reference clones the bundle
_copy_bundle_noMemo(S, quiz_dst, bundle_id, bundle_map) ==
  LET new_b == S.sqlite_sequence.media_bundles + 1
      atts == OrderByPosition({a \in S.media_bundle_attachments : a.bundle_id = bundle_id})
      first == S.sqlite_sequence.media_bundle_attachments
  IN [S |-> [S EXCEPT
               !.media_bundles = @ \cup {[id |-> new_b, quiz_id |-> quiz_dst]},
               !.media_bundle_attachments = @ \cup
                  {[id |-> first + i, bundle_id |-> new_b, kind |-> atts[i].kind,
                    file_id |-> atts[i].file_id, position |-> atts[i].position] :
                   i \in 1..Len(atts)},
               !.sqlite_sequence.media_bundles = new_b,
               !.sqlite_sequence.media_bundle_attachments = first + Len(atts)],
      new_b |-> new_b,
      bundle_map |-> [b \in DOMAIN bundle_map \cup {bundle_id} |->
                        IF b = bundle_id THEN new_b ELSE bundle_map[b]]]

\* variant: the bundle is handed over to quiz_dst instead of being cloned
_copy_bundle_moved(S, quiz_dst, bundle_id, bundle_map) ==
  [S |-> [S EXCEPT !.media_bundles =
            {IF b.id = bundle_id THEN [b EXCEPT !.quiz_id = quiz_dst] ELSE b : b \in @}],
   new_b |-> bundle_id,
   bundle_map |-> [b \in DOMAIN bundle_map \cup {bundle_id} |->
                     IF b = bundle_id THEN bundle_id ELSE bundle_map[b]]]

\* _copy_bundle: the new bundle of quiz_dst for the bundle bundle_id, cloned
\* with its attachments and committed unless bundle_map has it already
_copy_bundle(S, quiz_dst, bundle_id, bundle_map) ==
  IF bundle_id \in DOMAIN bundle_map
  THEN [S |-> S, new_b |-> bundle_map[bundle_id], bundle_map |-> bundle_map]
  ELSE LET new_b == S.sqlite_sequence.media_bundles + 1
           atts == OrderByPosition({a \in S.media_bundle_attachments : a.bundle_id = bundle_id})
           first == S.sqlite_sequence.media_bundle_attachments
       IN [S |-> [S EXCEPT
                    !.media_bundles = @ \cup {[id |-> new_b, quiz_id |-> quiz_dst]},
                    !.media_bundle_attachments = @ \cup
                       {[id |-> first + i, bundle_id |-> new_b, kind |-> atts[i].kind,
                         file_id |-> atts[i].file_id, position |-> atts[i].position] :
                        i \in 1..Len(atts)},
                    !.sqlite_sequence.media_bundles = new_b,
                    !.sqlite_sequence.media_bundle_attachments = first + Len(atts)],
           new_b |-> new_b,
           bundle_map |-> [b \in DOMAIN bundle_map \cup {bundle_id} |->
                             IF b = bundle_id THEN new_b ELSE bundle_map[b]]]

\* variant: the options are copied without their correctness flag
_copy_question_to_quiz_unflagged(S, qrow, quiz_dst, bundle_map, fail) ==
  Local(IF qrow.media_bundle_id # 0
        THEN _copy_bundle(S, quiz_dst, qrow.media_bundle_id, bundle_map)
        ELSE [S |-> S, new_b |-> 0, bundle_map |-> bundle_map], LAMBDA b :
  LET new_qid == b.S.sqlite_sequence.questions + 1
      opts == OrderByIndex({o \in b.S.options : o.question_id = qrow.id})
      atts == OrderByPosition({a \in b.S.question_attachments : a.question_id = qrow.id})
      o1 == b.S.sqlite_sequence.options
      a1 == b.S.sqlite_sequence.question_attachments
  IN
  IF fail = "bundle" THEN [S |-> S, bundle_map |-> bundle_map, ok |-> FALSE]
  ELSE IF fail = "question" THEN [S |-> b.S, bundle_map |-> b.bundle_map, ok |-> FALSE]
  ELSE [S |-> [b.S EXCEPT
                 !.questions = @ \cup {[id |-> new_qid, quiz_id |-> quiz_dst,
                                        text |-> qrow.text, media_bundle_id |-> b.new_b]},
                 !.options = @ \cup
                    {[id |-> o1 + i, question_id |-> new_qid,
                      option_index |-> opts[i].option_index, text |-> opts[i].text,
                      is_correct |-> 0] : i \in 1..Len(opts)},
                 !.question_attachments = @ \cup
                    {[id |-> a1 + i, question_id |-> new_qid, kind |-> atts[i].kind,
                      file_id |-> atts[i].file_id, position |-> atts[i].position] :
                     i \in 1..Len(atts)},
                 !.sqlite_sequence.questions = new_qid,
                 !.sqlite_sequence.options = o1 + Len(opts),
                 !.sqlite_sequence.question_attachments = a1 + Len(atts)],
        bundle_map |-> b.bundle_map, ok |-> TRUE])

\* variant: every statement is committed as it runs, so a copy that raises
\* after the INSERT of the question row leaves that row without its options
\* and attachments
_copy_question_to_quiz_autocommit(S, qrow, quiz_dst, bundle_map, fail) ==
  Local(IF qrow.media_bundle_id # 0
        THEN _copy_bundle(S, quiz_dst, qrow.media_bundle_id, bundle_map)
        ELSE [S |-> S, new_b |-> 0, bundle_map |-> bundle_map], LAMBDA b :
  LET new_qid == b.S.sqlite_sequence.questions + 1
      opts == OrderByIndex({o \in b.S.options : o.question_id = qrow.id})
      atts == OrderByPosition({a \in b.S.question_attachments : a.question_id = qrow.id})
      o1 == b.S.sqlite_sequence.options
      a1 == b.S.sqlite_sequence.question_attachments
  IN
  IF fail = "bundle" THEN [S |-> S, bundle_map |-> bundle_map, ok |-> FALSE]
  ELSE IF fail = "question"
  THEN [S |-> [b.S EXCEPT
                 !.questions = @ \cup {[id |-> new_qid, quiz_id |-> quiz_dst,
                                        text |-> qrow.text, media_bundle_id |-> b.new_b]},
                 !.sqlite_sequence.questions = new_qid],
        bundle_map |-> b.bundle_map, ok |-> FALSE]
  ELSE [S |-> [b.S EXCEPT
                 !.questions = @ \cup {[id |-> new_qid, quiz_id |-> quiz_dst,
                                        text |-> qrow.text, media_bundle_id |-> b.new_b]},
                 !.options = @ \cup
                    {[id |-> o1 + i, question_id |-> new_qid,
                      option_index |-> opts[i].option_index, text |-> opts[i].text,
                      is_correct |-> opts[i].is_correct] : i \in 1..Len(opts)},
                 !.question_attachments = @ \cup
                    {[id |-> a1 + i, question_id |-> new_qid, kind |-> atts[i].kind,
                      file_id |-> atts[i].file_id, position |-> atts[i].position] :
                     i \in 1..Len(atts)},
                 !.sqlite_sequence.questions = new_qid,
                 !.sqlite_sequence.options = o1 + Len(opts),
                 !.sqlite_sequence.question_attachments = a1 + Len(atts)],
        bundle_map |-> b.bundle_map, ok |-> TRUE])

\* _copy_question_to_quiz: the bundle first, in a transaction of its own, then
\* the question row with its options and own attachments in one transaction.
\* fail is where sqlite raises: "bundle" in the first transaction of the copy,
\* "question" in the transaction of the question row (rolled back by the
\* connection's context manager, the bundle stays), "none" nowhere.
_copy_question_to_quiz(S, qrow, quiz_dst, bundle_map, fail) ==
  Local(IF qrow.media_bundle_id # 0
        THEN _copy_bundle(S, quiz_dst, qrow.media_bundle_id, bundle_map)
        ELSE [S |-> S, new_b |-> 0, bundle_map |-> bundle_map], LAMBDA b :
  LET new_qid == b.S.sqlite_sequence.questions + 1
      opts == OrderByIndex({o \in b.S.options : o.question_id = qrow.id})
      atts == OrderByPosition({a \in b.S.question_attachments : a.question_id = qrow.id})
      o1 == b.S.sqlite_sequence.options
      a1 == b.S.sqlite_sequence.question_attachments
  IN
  IF fail = "bundle" THEN [S |-> S, bundle_map |-> bundle_map, ok |-> FALSE]
  ELSE IF fail = "question" THEN [S |-> b.S, bundle_map |-> b.bundle_map, ok |-> FALSE]
  ELSE [S |-> [b.S EXCEPT
                 !.questions = @ \cup {[id |-> new_qid, quiz_id |-> quiz_dst,
                                        text |-> qrow.text, media_bundle_id |-> b.new_b]},
                 !.options = @ \cup
                    {[id |-> o1 + i, question_id |-> new_qid,
                      option_index |-> opts[i].option_index, text |-> opts[i].text,
                      is_correct |-> opts[i].is_correct] : i \in 1..Len(opts)},
                 !.question_attachments = @ \cup
                    {[id |-> a1 + i, question_id |-> new_qid, kind |-> atts[i].kind,
                      file_id |-> atts[i].file_id, position |-> atts[i].position] :
                     i \in 1..Len(atts)},
                 !.sqlite_sequence.questions = new_qid,
                 !.sqlite_sequence.options = o1 + Len(opts),
                 !.sqlite_sequence.question_attachments = a1 + Len(atts)],
        bundle_map |-> b.bundle_map, ok |-> TRUE])

\* for q in questions: _copy_question_to_quiz(q, new_quiz_id, bundle_map); the
\* k-th copy from here raises (k < 1: none of these)
RECURSIVE CopyQuestions(_, _, _, _, _, _)
CopyQuestions(S, qs, quiz_dst, bundle_map, k, fail) ==
  IF qs = <<>> THEN [S |-> S, bundle_map |-> bundle_map, ok |-> TRUE]
  ELSE Local(_copy_question_to_quiz(S, Head(qs), quiz_dst, bundle_map,
                                    IF k = 1 THEN fail ELSE "none"), LAMBDA r :
         IF r.ok THEN CopyQuestions(r.S, Tail(qs), quiz_dst, r.bundle_map, k - 1, fail)
         ELSE r)

\* variant: the questions of dst_id are copied before those of src_id
merge_quizzes_create_new_dstFirst(S, src_id, dst_id, k, fail) ==
  LET new_quiz_id == S.sqlite_sequence.quizzes + 1
      S1 == [S EXCEPT !.quizzes = @ \cup {[id |-> new_quiz_id, is_archived |-> 0]},
                      !.sqlite_sequence.quizzes = new_quiz_id]
      qs1 == OrderById({q \in S1.questions : q.quiz_id = dst_id})
  IN Local(CopyQuestions(S1, qs1, new_quiz_id, NoBundles, k, fail), LAMBDA r1 :
       LET qs2 == OrderById({q \in r1.S.questions : q.quiz_id = src_id}) IN
       Local(IF r1.ok
             THEN CopyQuestions(r1.S, qs2, new_quiz_id, r1.bundle_map, k - Len(qs1), fail)
             ELSE r1, LAMBDA r2 :
         [S |-> r2.S, ok |-> r2.ok, new_quiz_id |-> new_quiz_id]))

\* merge_quizzes_create_new: the new quiz row is committed, then the questions
\* of src_id are copied in id order, then those of dst_id, with one bundle_map
merge_quizzes_create_new(S, src_id, dst_id, k, fail) ==
  LET new_quiz_id == S.sqlite_sequence.quizzes + 1
      S1 == [S EXCEPT !.quizzes = @ \cup {[id |-> new_quiz_id, is_archived |-> 0]},
                      !.sqlite_sequence.quizzes = new_quiz_id]
      qs1 == OrderById({q \in S1.questions : q.quiz_id = src_id})
  IN Local(CopyQuestions(S1, qs1, new_quiz_id, NoBundles, k, fail), LAMBDA r1 :
       LET qs2 == OrderById({q \in r1.S.questions : q.quiz_id = dst_id}) IN
       Local(IF r1.ok
             THEN CopyQuestions(r1.S, qs2, new_quiz_id, r1.bundle_map, k - Len(qs1), fail)
             ELSE r1, LAMBDA r2 :
         [S |-> r2.S, ok |-> r2.ok, new_quiz_id |-> new_quiz_id]))

\* variant: a quiz is merged with itself like with any other
merge_do_noSelfCheck(src_id, dst_id, k, fail) ==
  LET r == merge_quizzes_create_new(Store, src_id, dst_id, k, fail) IN
  /\ nedits < MaxEdits
  /\ nedits' = nedits + 1
  /\ IF src_id \notin {z.id : z \in quizzes} \/ dst_id \notin {z.id : z \in quizzes}
     THEN /\ outbox' = Reply("merge_error", 0, 0, <<src_id, dst_id, 0>>)
          /\ UNCHANGED <<quizzes, questions, options, question_attachments, media_bundles,
                         media_bundle_attachments, sqlite_sequence>>
     ELSE /\ quizzes' = r.S.quizzes
          /\ questions' = r.S.questions
          /\ options' = r.S.options
          /\ question_attachments' = r.S.question_attachments
          /\ media_bundles' = r.S.media_bundles
          /\ media_bundle_attachments' = r.S.media_bundle_attachments
          /\ sqlite_sequence' = r.S.sqlite_sequence
          /\ outbox' = Reply(IF r.ok THEN "merged" ELSE "merge_error", 0, 0,
                             <<src_id, dst_id, r.new_quiz_id>>)
  /\ UNCHANGED <<now, answerVars, ghostVars, publishVars, edit_state, buildVars>>

\* merge_do: the owner picked the second quiz.  The same quiz twice is refused;
\* a quiz that has no row makes src['title'] raise before the first INSERT; the
\* k-th copy of a question may raise (k = 0: the merge goes through).  The
\* reply names <<src, dst, new quiz>>.
merge_do(src_id, dst_id, k, fail) ==
  LET r == merge_quizzes_create_new(Store, src_id, dst_id, k, fail) IN
  /\ nedits < MaxEdits
  /\ nedits' = nedits + 1
  /\ IF src_id = dst_id
     THEN /\ outbox' = Reply("same_quiz", 0, 0, <<src_id, dst_id, 0>>)
          /\ UNCHANGED <<quizzes, questions, options, question_attachments, media_bundles,
                         media_bundle_attachments, sqlite_sequence>>
     ELSE IF src_id \notin {z.id : z \in quizzes} \/ dst_id \notin {z.id : z \in quizzes}
     THEN /\ outbox' = Reply("merge_error", 0, 0, <<src_id, dst_id, 0>>)
          /\ UNCHANGED <<quizzes, questions, options, question_attachments, media_bundles,
                         media_bundle_attachments, sqlite_sequence>>
     ELSE /\ quizzes' = r.S.quizzes
          /\ questions' = r.S.questions
          /\ options' = r.S.options
          /\ question_attachments' = r.S.question_attachments
          /\ media_bundles' = r.S.media_bundles
          /\ media_bundle_attachments' = r.S.media_bundle_attachments
          /\ sqlite_sequence' = r.S.sqlite_sequence
          /\ outbox' = Reply(IF r.ok THEN "merged" ELSE "merge_error", 0, 0,
                             <<src_id, dst_id, r.new_quiz_id>>)
  /\ UNCHANGED <<now, answerVars, ghostVars, publishVars, edit_state, buildVars>>

(* ------------------------------- export -------------------------------- *)
\* sorted(ids)
Sorted(ids) == SortSeq(SeqOf(ids), LAMBDA a, b : a < b)

\* the attachment rows as the list of {"kind", "file_id", "position"} objects
AttObjects(rows) ==
  [i \in 1..Len(rows) |->
     [kind |-> rows[i].kind, file_id |-> rows[i].file_id, position |-> rows[i].position]]

\* the option rows as the list of {"option_index", "text", "is_correct"} objects
OptionObjects(rows) ==
  [i \in 1..Len(rows) |->
     [option_index |-> rows[i].option_index, text |-> rows[i].text,
      is_correct |-> rows[i].is_correct]]

\* variant: the bundles listed are those of the quiz, referenced or not
export_quiz_json_allBundles(quiz_id) ==
  LET qs == OrderById({q \in questions : q.quiz_id = quiz_id})
      bundle_ids == Sorted({b.id : b \in {x \in media_bundles : x.quiz_id = quiz_id}})
  IN [exported_at |-> isoformat(now),
      quiz |-> [id |-> quiz_id],
      media_bundles |->
        [i \in 1..Len(bundle_ids) |->
           [id |-> bundle_ids[i], attachments |-> AttObjects(get_bundle_atts(bundle_ids[i]))]],
      questions |->
        [i \in 1..Len(qs) |->
           [id |-> qs[i].id, text |-> qs[i].text, media_bundle_id |-> qs[i].media_bundle_id,
            options |-> OptionObjects(options_for_question(qs[i].id)),
            attachments |-> AttObjects(get_question_atts(qs[i].id))]]]

\* variant: the export stamps every question with the time of the export
export_quiz_json_stamped(quiz_id) ==
  LET qs == OrderById({q \in questions : q.quiz_id = quiz_id})
      bundle_ids == Sorted({q.media_bundle_id : q \in {x \in questions : x.quiz_id = quiz_id}}
                             \ {0})
  IN [exported_at |-> isoformat(now),
      quiz |-> [id |-> quiz_id],
      media_bundles |->
        [i \in 1..Len(bundle_ids) |->
           [id |-> bundle_ids[i], attachments |-> AttObjects(get_bundle_atts(bundle_ids[i]))]],
      questions |->
        [i \in 1..Len(qs) |->
           [id |-> qs[i].id, text |-> <<qs[i].text, now>>,
            media_bundle_id |-> qs[i].media_bundle_id,
            options |-> OptionObjects(options_for_question(qs[i].id)),
            attachments |-> AttObjects(get_question_atts(qs[i].id))]]]

\* export_quiz_json: the snapshot of a quiz (titles, authors and creation
\* times are columns the model does not keep): the bundles its questions refer
\* to, sorted, with their attachments ORDER BY position, and its questions
\* ORDER BY id with their options ORDER BY option_index and own attachments
\* ORDER BY position
export_quiz_json(quiz_id) ==
  LET qs == OrderById({q \in questions : q.quiz_id = quiz_id})
      bundle_ids == Sorted({q.media_bundle_id : q \in {x \in questions : x.quiz_id = quiz_id}}
                             \ {0})
  IN [exported_at |-> isoformat(now),
      quiz |-> [id |-> quiz_id],
      media_bundles |->
        [i \in 1..Len(bundle_ids) |->
           [id |-> bundle_ids[i], attachments |-> AttObjects(get_bundle_atts(bundle_ids[i]))]],
      questions |->
        [i \in 1..Len(qs) |->
           [id |-> qs[i].id, text |-> qs[i].text, media_bundle_id |-> qs[i].media_bundle_id,
            options |-> OptionObjects(options_for_question(qs[i].id)),
            attachments |-> AttObjects(get_question_atts(qs[i].id))]]]

\* export_pick: the snapshot is built and sent as a document; a quiz without a
\* row makes quiz["id"] raise, and that or a failure of the send is reported
export_pick(chat_id, quiz_id, delivered) ==
  /\ outbox' = IF quiz_id \in {z.id : z \in quizzes} /\ delivered
               THEN Reply("exported", chat_id, 0, export_quiz_json(quiz_id))
               ELSE Reply("export_failed", chat_id, 0, quiz_id)
  /\ UNCHANGED <<now, storeVars, answerVars, ghostVars, publishVars>>

(* -------------------------------- clock -------------------------------- *)
Tick ==
  /\ now < MaxTime
  /\ now' = now + 1
  /\ UNCHANGED <<storeVars, answerVars, outbox, ghostVars, publishVars>>

(* ----------------------------- behaviours ------------------------------ *)
Outcomes == {"ok", "retry_after", "error"}

\* the retry_after a rate-limit signal carries; 0 is for none
RetryAfters == {0, 2}

\* the events, with the users, quizzes and questions they are drawn from
Begin(US, ZS) == \E u \in US, c \in Chats, z \in ZS : cb_start_quiz(u, c, z)

Name(US, TS) == \E u \in US, c \in Chats, t \in TS : catch_name_in_group(u, c, t)

Answer(US, QS, TS) ==
  \E h \in Slots, u \in US, c \in Chats, q \in QS, o \in 0..1, t \in TS :
    on_answer(h, u, c, q, o, t)

AnswerAck == \E h \in Slots : answer_ack(h, "sent")

AnswerAckCelebrating == \E h \in Slots, celebration \in Celebrations : answer_ack(h, celebration)

CheckFinish == \E h \in Slots : check_finish(h)

FinalResult == \E h \in Slots : final_result(h)

PublishButton(ZS, SS) ==
  \E c \in Chats, z \in ZS, sel \in SS : cb_pub_duration_selected(c, z, sel)

PublishCustom(ZS) ==
  \E c \in Chats, z \in ZS, hours \in 0..MaxHours : cb_pub_custom_hours(c, z, str(hours))

PublishSend(RS) ==
  \E first \in Outcomes, second \in {"ok", "error"} :
    \E retry_after \in IF first = "retry_after" THEN RS ELSE {0} :
      publish_send(first, second, retry_after)

\* The answer machine: two users, quiz 1 with its two questions, clock at rest.
Next ==
  \/ Begin(Users, {1})
  \/ Name(Users, {" ", " Ann "})
  \/ Answer(Users, {1, 2}, {0, 1})
  \/ AnswerAck
  \/ CheckFinish
  \/ FinalResult

Spec == Init /\ [][Next]_vars

\* Celebrating: user 1 takes quiz 1 while the celebratory send after each
\* acknowledged answer is not configured, goes through or fails.
NextCelebrate ==
  \/ Begin({1}, {1})
  \/ Name({1}, {" Ann "})
  \/ Answer({1}, {1, 2}, {0})
  \/ AnswerAckCelebrating
  \/ CheckFinish
  \/ FinalResult

SpecCelebrate == Init /\ [][NextCelebrate]_vars

\* One user and both quizzes: pending names across quizzes.
NextQuizzes ==
  \/ Begin({1}, {1, 2})
  \/ Name({1}, Texts)
  \/ Answer({1}, {1, 2, 3}, {0, 1})
  \/ AnswerAck
  \/ CheckFinish
  \/ FinalResult

SpecQuizzes == Init /\ [][NextQuizzes]_vars

\* Sessions: quiz 2 (one question) is published and republished with and without
\* a time limit while the clock runs and user 1 begins, gives a name and answers.
NextSession ==
  \/ Begin({1}, {2})
  \/ Name({1}, {" Ann "})
  \/ Answer({1}, {3}, {0})
  \/ AnswerAck
  \/ CheckFinish
  \/ FinalResult
  \/ PublishButton({2}, {"none"})
  \/ PublishCustom({2})
  \/ PublishSend({0})
  \/ Tick

SpecSession == Init /\ [][NextSession]_vars

\* Publishing: quiz 1 has question 1 with two attachments of its own and question
\* 2 with none, both referring to bundle 1 of two attachments; quiz 2 has no
\* question and quiz 3 does not exist.  The sends of a pass are logged.
PublishQuestions ==
  {[id |-> 1, quiz_id |-> 1, text |-> "q1", media_bundle_id |-> 1],
   [id |-> 2, quiz_id |-> 1, text |-> "q2", media_bundle_id |-> 1]}

PublishOptions == {o \in InitOptions : o.question_id \in {1, 2}}

PublishQuestionAtts ==
  {[id |-> 1, question_id |-> 1, kind |-> "photo", file_id |-> "f1", position |-> 0],
   [id |-> 2, question_id |-> 1, kind |-> "voice", file_id |-> "f2", position |-> 1]}

PublishBundles == {[id |-> 1, quiz_id |-> 1]}

PublishBundleAtts ==
  {[id |-> 1, bundle_id |-> 1, kind |-> "audio", file_id |-> "g1", position |-> 0],
   [id |-> 2, bundle_id |-> 1, kind |-> "photo", file_id |-> "g2", position |-> 1]}

InitPublish ==
  /\ now = 0
  /\ quizzes = InitQuizzes
  /\ questions = PublishQuestions
  /\ options = PublishOptions
  /\ question_attachments = PublishQuestionAtts
  /\ media_bundles = PublishBundles
  /\ media_bundle_attachments = PublishBundleAtts
  /\ responses = {}
  /\ participant_names = {}
  /\ user_progress = {}
  /\ sent_msgs = <<>>
  /\ pending_names = <<>>
  /\ handlers = [h \in Slots |-> Idle]
  /\ outbox = Reply("", 0, 0, 0)
  /\ nevents = 0
  /\ tally = [k \in {} |-> 0]
  /\ nwrites = [k \in {} |-> 0]
  /\ nfinals = [k \in {} |-> 0]
  /\ pass = NoPass
  /\ npasses = 0
  /\ next_message_id = 1
  /\ sqlite_sequence = [quizzes |-> 2, questions |-> 2, options |-> 4,
                        question_attachments |-> 2, media_bundles |-> 1,
                        media_bundle_attachments |-> 2]
  /\ edit_state = NoEdit
  /\ build_session = BuildSession
  /\ build_state = [c \in AuthorChats |-> NoConversation]
  /\ nedits = 0
  /\ log = [NoLog EXCEPT !.on = TRUE]

NextPublish ==
  \/ PublishButton({1, 2, 3}, {"none", "12"})
  \/ PublishCustom({1})
  \/ PublishSend(RetryAfters)
  \/ Tick

SpecPublish == InitPublish /\ [][NextPublish]_vars

\* The same with the scheduling of the event loop: the coroutine of a pass is
\* resumed when the request it awaits returns or raises, and every request of
\* the transport returns or raises (it has a timeout).
NextPublishLive ==
  \/ PublishButton({1, 2}, {"none", "12"})
  \/ PublishSend({0})
  \/ Tick

SpecPublishLive == InitPublish /\ [][NextPublishLive]_vars /\ WF_vars(PublishSend({0}))

\* Authoring while a quiz is taken: user 1 answers quiz 1 while the owner replaces
\* the options of question 1, deletes question 2 or adds a question to the quiz.
DeleteQuestion(QS) == \E q \in QS : cb_m_delete(OWNER_ID, q)

AddQuestion(ZS) == \E z \in ZS : insert_question_with_data(z, "q", <<"a", "b">>, 0)

EditOptions(QS) == \E q \in QS : cb_m_edit_opts(q)

OptionsCount == \E n \in 1..MaxOptions : m_opts_count(n)

OptionsText == m_opts_text(" c ")

OptionsCorrect == \E k \in 0..MaxOptions : m_opts_correct(k)

NextEdit ==
  \/ Begin({1}, {1})
  \/ Name({1}, {" Ann "})
  \/ Answer({1}, {1, 2}, {0})
  \/ AnswerAck
  \/ CheckFinish
  \/ FinalResult
  \/ DeleteQuestion({2})
  \/ AddQuestion({1})
  \/ EditOptions({1})
  \/ OptionsCount
  \/ OptionsText
  \/ OptionsCorrect

SpecEdit == Init /\ [][NextEdit]_vars

\* Merging: quiz 1 has question 1 with two attachments of its own and question
\* 2 with none, both referring to bundle 1; quiz 2 has question 3 without bundle
\* and the bundle 2 that no question refers to; the owner merges quizzes (also
\* a quiz with itself, a quiz that does not exist yet, a quiz made by an earlier
\* merge) and deletes questions.
MergeQuestions ==
  PublishQuestions \cup {[id |-> 3, quiz_id |-> 2, text |-> "q3", media_bundle_id |-> 0]}

MergeBundles == {[id |-> 1, quiz_id |-> 1], [id |-> 2, quiz_id |-> 2]}

MergeBundleAtts ==
  PublishBundleAtts
    \cup {[id |-> 3, bundle_id |-> 2, kind |-> "voice", file_id |-> "g3", position |-> 0]}

InitMerge ==
  /\ now = 0
  /\ quizzes = InitQuizzes
  /\ questions = MergeQuestions
  /\ options = InitOptions
  /\ question_attachments = PublishQuestionAtts
  /\ media_bundles = MergeBundles
  /\ media_bundle_attachments = MergeBundleAtts
  /\ responses = {}
  /\ participant_names = {}
  /\ user_progress = {}
  /\ sent_msgs = <<>>
  /\ pending_names = <<>>
  /\ handlers = [h \in Slots |-> Idle]
  /\ outbox = Reply("", 0, 0, 0)
  /\ nevents = 0
  /\ tally = [k \in {} |-> 0]
  /\ nwrites = [k \in {} |-> 0]
  /\ nfinals = [k \in {} |-> 0]
  /\ pass = NoPass
  /\ npasses = 0
  /\ next_message_id = 1
  /\ sqlite_sequence = [quizzes |-> 2, questions |-> 3, options |-> 6,
                        question_attachments |-> 2, media_bundles |-> 2,
                        media_bundle_attachments |-> 3]
  /\ edit_state = NoEdit
  /\ build_session = BuildSession
  /\ build_state = [c \in AuthorChats |-> NoConversation]
  /\ nedits = 0
  /\ log = NoLog

Merge(ZS) ==
  \E src_id \in ZS, dst_id \in ZS, k \in 0..MaxFailAt, fail \in {"bundle", "question"} :
    merge_do(src_id, dst_id, k, fail)

NextMerge ==
  \/ Merge({1, 2, 3})
  \/ DeleteQuestion({1, 3})

SpecMerge == InitMerge /\ [][NextMerge]_vars

\* Exporting: quiz 1 has question 1 with bundle 2 and question 2 with bundle 1
\* (a question takes any bundle of its quiz, picked from the list of them), and
\* bundle 3, which no question refers to; quiz 2 has question 3 without bundle.
\* The owner exports the quizzes, also one that does not exist yet, between
\* merges and deletions and while the clock goes on.
ExportQuestions ==
  {[id |-> 1, quiz_id |-> 1, text |-> "q1", media_bundle_id |-> 2],
   [id |-> 2, quiz_id |-> 1, text |-> "q2", media_bundle_id |-> 1],
   [id |-> 3, quiz_id |-> 2, text |-> "q3", media_bundle_id |-> 0]}

ExportBundles == {[id |-> 1, quiz_id |-> 1], [id |-> 2, quiz_id |-> 1], [id |-> 3, quiz_id |-> 1]}

ExportBundleAtts ==
  MergeBundleAtts
    \cup {[id |-> 4, bundle_id |-> 3, kind |-> "photo", file_id |-> "g4", position |-> 0]}

InitExport ==
  /\ now = 0
  /\ quizzes = InitQuizzes
  /\ questions = ExportQuestions
  /\ options = InitOptions
  /\ question_attachments = PublishQuestionAtts
  /\ media_bundles = ExportBundles
  /\ media_bundle_attachments = ExportBundleAtts
  /\ responses = {}
  /\ participant_names = {}
  /\ user_progress = {}
  /\ sent_msgs = <<>>
  /\ pending_names = <<>>
  /\ handlers = [h \in Slots |-> Idle]
  /\ outbox = Reply("", 0, 0, 0)
  /\ nevents = 0
  /\ tally = [k \in {} |-> 0]
  /\ nwrites = [k \in {} |-> 0]
  /\ nfinals = [k \in {} |-> 0]
  /\ pass = NoPass
  /\ npasses = 0
  /\ next_message_id = 1
  /\ sqlite_sequence = [quizzes |-> 2, questions |-> 3, options |-> 6,
                        question_attachments |-> 2, media_bundles |-> 3,
                        media_bundle_attachments |-> 4]
  /\ edit_state = NoEdit
  /\ build_session = BuildSession
  /\ build_state = [c \in AuthorChats |-> NoConversation]
  /\ nedits = 0
  /\ log = NoLog

Export(ZS) ==
  \E c \in Chats, z \in ZS, delivered \in BOOLEAN : export_pick(c, z, delivered)

NextExport ==
  \/ Export({1, 2, 3})
  \/ Merge({1, 2, 3})
  \/ DeleteQuestion({1, 3})
  \/ Tick

SpecExport == InitExport /\ [][NextExport]_vars

\* Typing the hours: the owner types the custom duration of a publish of quiz 1,
\* or of quiz 2, which has no question: numbers in and out of the range, with
\* blanks, signs and underscores, and messages that are no numbers, while the
\* transport delivers every send.  Each message comes with the integer it
\* writes, if it writes one.
Typed ==
  {[text |-> <<"0">>, integer |-> TRUE, hours |-> 0],
   [text |-> <<"1">>, integer |-> TRUE, hours |-> 1],
   [text |-> <<" ", "2", " ">>, integer |-> TRUE, hours |-> 2],
   [text |-> <<"+", "1", "_", "0">>, integer |-> TRUE, hours |-> 10],
   [text |-> <<"2", "4", "0">>, integer |-> TRUE, hours |-> 240],
   [text |-> <<"2", "4", "1">>, integer |-> TRUE, hours |-> 241],
   [text |-> <<"-", "1">>, integer |-> TRUE, hours |-> 0 - 1],
   [text |-> <<"1", ".", "5">>, integer |-> FALSE, hours |-> 0],
   [text |-> <<"2", " ", "4">>, integer |-> FALSE, hours |-> 0],
   [text |-> <<"a">>, integer |-> FALSE, hours |-> 0],
   [text |-> <<" ">>, integer |-> FALSE, hours |-> 0]}

PublishTyped(ZS) ==
  \E c \in Chats, z \in ZS, t \in Typed : cb_pub_custom_hours(c, z, t.text)

\* the transport delivers every send
PublishDelivered == publish_send("ok", "ok", 0)

NextHours ==
  \/ PublishTyped({1, 2})
  \/ PublishDelivered
  \/ Tick

SpecHours == InitPublish /\ [][NextHours]_vars

\* Deleting quizzes: on the store of the exports, quiz 2 is published without
\* time limit and taken by user 1, and the owner deletes quizzes, also one
\* that has no row, before, between and after.
DeleteQuiz(ZS) == \E z \in ZS : cb_del_quiz_do(z)

NextDelete ==
  \/ Begin({1}, {2})
  \/ Name({1}, {" Ann "})
  \/ Answer({1}, {3}, {0})
  \/ AnswerAck
  \/ CheckFinish
  \/ FinalResult
  \/ PublishButton({2}, {"none"})
  \/ PublishDelivered
  \/ DeleteQuiz({1, 2, 3})

SpecDelete == InitExport /\ [][NextDelete]_vars

\* The guards: quiz 2 is published for an hour or for none, the clock runs,
\* user 1 answers question 3, also with controls addressed to user 2, and gives
\* the name the first answer asks for, and the owner deletes the question.
NextGuards ==
  \/ Name({1}, {" Ann "})
  \/ Answer({1}, {3}, {0, 2})
  \/ AnswerAck
  \/ CheckFinish
  \/ FinalResult
  \/ PublishCustom({2})
  \/ PublishDelivered
  \/ DeleteQuestion({3})
  \/ Tick

SpecGuards == Init /\ [][NextGuards]_vars

(* ============================== properties ============================= *)
\* the answer events of the specifications above
AnswerEvents == [u : Users, c : Chats, q : {1, 2, 3}, o : 0..1, t : 0..MaxUsers]

\* the event is addressed to the user who sent it (or to everybody)
Addressed(e) == e.t = 0 \/ e.t = e.u

\* the stored responses of a <<chat, user, question>>
Stored(c, u, q) == {r \in responses : r.chat_id = c /\ r.user_id = u /\ r.question_id = q}

\* the recorded units of <<chat, quiz>>
UnitsOf(c, z) ==
  {i \in 1..Len(sent_msgs) : sent_msgs[i].chat_id = c /\ sent_msgs[i].quiz_id = z}

\* the newest recorded unit of <<chat, quiz>> that has an expiry instant has one
\* that is strictly in the past
PastNewestExpiry(c, z) ==
  \E i \in UnitsOf(c, z) :
    /\ sent_msgs[i].expires_at # NULL
    /\ \A j \in UnitsOf(c, z) : j > i => sent_msgs[j].expires_at = NULL
    /\ now > sent_msgs[i].expires_at[2]

\* the user has a name for the quiz
Named(c, u, z) ==
  \E p \in participant_names : p.origin_chat_id = c /\ p.user_id = u /\ p.quiz_id = z

\* the event gets past the guards of the target user, of the question and of the
\* expiry, and q is the row of its question
Reaches(e, q) ==
  /\ Addressed(e)
  /\ q \in questions /\ q.id = e.q
  /\ ~PastNewestExpiry(e.c, q.quiz_id)

\* the step handles an answer event
AnswerStep == nevents' = nevents + 1

\* the step is on_answer handling the event e
Handles(e) ==
  /\ AnswerStep
  /\ \E h \in Slots : handlers[h].pc = "idle" /\ on_answer(h, e.u, e.c, e.q, e.o, e.t)

(* C1: in every reachable state, whatever begin, name and answer events,     *)
(* publishes and republishes came before, no two stored responses have the   *)
(* same channel, user and question.                                          *)
C1_OneResponsePerTriple ==
  \A r1, r2 \in responses :
    (r1.chat_id = r2.chat_id /\ r1.user_id = r2.user_id /\ r1.question_id = r2.question_id)
      => r1 = r2

\* a second answer for an answered question was handled after a republish
C1_Witness ==
  /\ \E i, j \in 1..Len(sent_msgs) : sent_msgs[i].expires_at # sent_msgs[j].expires_at
  /\ outbox.kind = "already"
  /\ \E r \in responses :
       TallyOf(<<r.chat_id, r.user_id, r.question_id>>).passed >= 2

(* C2: of the N answer events of a registered user for one question of one   *)
(* channel, however their handlers overlap, exactly one is stored, the other *)
(* N-1 end as "already answered", and none ends in an error of the store.    *)
C2_RaceStoresOne ==
  \A k \in DOMAIN tally :
    /\ Cardinality(Stored(k[1], k[2], k[3])) = 1
    /\ tally[k].already = tally[k].passed - 1
    /\ tally[k].store_error = 0

\* three events for one question: the first is stored and its handler still waits
\* for its acknowledgement when the two others have been rejected
C2_Witness ==
  \E h \in Slots :
    /\ handlers[h].pc = "ack"
    /\ TallyOf(<<handlers[h].chat_id, handlers[h].user_id, handlers[h].question_id>>).already = 2

(* C3: an answer event that gets past the guards of the target user and of  *)
(* the expiry, for a <<channel, user, question>> that has a stored response, *)
(* is rejected as "already answered" and changes nothing: the stored         *)
(* response stays as it is, also when the event names another option, and no *)
(* progress row, pending name, handler continuation or final result comes    *)
(* from it.                                                                  *)
C3_AlreadyAnsweredChangesNothing ==
  [][AnswerStep => \A e \in AnswerEvents : \A q \in questions :
       (Reaches(e, q) /\ Stored(e.c, e.u, e.q) # {} /\ Handles(e))
         => /\ outbox' = Reply("already", e.c, e.u, <<"ans", e.q, e.o, e.t>>)
            /\ UNCHANGED <<responses, user_progress, pending_names, participant_names,
                           handlers, nwrites, nfinals>>]_vars

\* the rejected event named another option than the stored response has
C3_Witness ==
  /\ outbox.kind = "already"
  /\ \E r \in Stored(outbox.chat_id, outbox.user_id, outbox.ref[2]) :
       r.option_index # outbox.ref[3]

(* C4: an answer event that gets past the guards of the target user and of  *)
(* the expiry, of a user without a name for the quiz of the question, stores *)
(* no response: it only adds the pending-name entry of <<channel, user,      *)
(* quiz>> and sends the name prompt; giving the name stores no response      *)
(* either, so the answer has to be sent again.                               *)
C4_UnregisteredAnswerStoresNothing ==
  [][/\ AnswerStep => \A e \in AnswerEvents : \A q \in questions :
          (Reaches(e, q) /\ ~Named(e.c, e.u, q.quiz_id) /\ Handles(e))
            => /\ {pending_names'[i] : i \in 1..Len(pending_names')} =
                    {pending_names[i] : i \in 1..Len(pending_names)}
                      \cup {<<e.c, e.u, q.quiz_id>>}
               /\ outbox'.kind \in {"name_first", "prompt_error"}
               /\ outbox'.chat_id = e.c /\ outbox'.user_id = e.u
               /\ UNCHANGED <<responses, participant_names, user_progress, handlers,
                              nwrites, nfinals>>
     /\ \A u \in Users, c \in Chats, text \in Texts :
          (participant_names' # participant_names /\ catch_name_in_group(u, c, text))
            => UNCHANGED <<responses, handlers>>]_vars

\* the answer of a user without a name was just handled: the prompt is out, the
\* entry is there, nothing is stored
C4_Witness ==
  /\ outbox.kind = "name_first"
  /\ \E i \in 1..Len(pending_names) :
       pending_names[i] = <<outbox.chat_id, outbox.user_id, outbox.ref>>
  /\ responses = {}

\* the quiz was published in the channel, and every recorded unit of it there
\* carries the expiry instant x
OnlyExpiry(c, z, x) ==
  /\ UnitsOf(c, z) # {}
  /\ \A i \in UnitsOf(c, z) : sent_msgs[i].expires_at = isoformat(x)

(* C5: a publish with the custom duration of 1 hour gives its units the      *)
(* expiry instant "publish instant + 1 hour"; when the channel has no other  *)
(* publish of the quiz, the first answer of a registered user to a question  *)
(* of it is stored before and exactly at that instant, and rejected as       *)
(* expired, storing nothing, only strictly after it.                         *)
C5_CustomHourSession ==
  [][/\ \A c \in Chats, z \in {1, 2} :
          (npasses' # npasses /\ cb_pub_custom_hours(c, z, str(1)) /\ pass'.active)
            => pass'.expires_at = isoformat(now + 1)
     /\ Len(sent_msgs') > Len(sent_msgs)
          => /\ pass.active
             /\ sent_msgs'[Len(sent_msgs')].expires_at = pass.expires_at
     /\ AnswerStep => \A e \in AnswerEvents : \A x \in 0..(MaxTime + MaxHours) :
          (/\ Addressed(e)
           /\ Stored(e.c, e.u, e.q) = {}
           /\ \E q \in questions :
                q.id = e.q /\ OnlyExpiry(e.c, q.quiz_id, x) /\ Named(e.c, e.u, q.quiz_id)
           /\ Handles(e))
            => IF now <= x
               THEN \E r \in responses' :
                      /\ responses' = responses \cup {r}
                      /\ r.chat_id = e.c /\ r.user_id = e.u /\ r.question_id = e.q
                      /\ r.option_index = e.o /\ r.answered_at = isoformat(now)
               ELSE /\ outbox' = Reply("expired", e.c, e.u, <<"ans", e.q, e.o, e.t>>)
                    /\ UNCHANGED <<responses, handlers, pending_names>>]_vars

\* one answer was stored exactly at the expiry instant of the only publish, a
\* later one was rejected as expired
C5_Witness ==
  /\ outbox.kind = "expired"
  /\ \E r \in responses : \E q \in questions :
       /\ q.id = r.question_id
       /\ OnlyExpiry(r.chat_id, q.quiz_id, fromisoformat(r.answered_at))
       /\ now > fromisoformat(r.answered_at)

(* C6: a begin event, and an answer event that reaches the expiry guard, is  *)
(* refused as expired exactly when the newest recorded unit of the           *)
(* <<channel, quiz>> with a non-null expiry instant has "now > expiry";      *)
(* units without an expiry instant, newer or older, play no part.            *)
C6_ExpiryVerdict ==
  [][/\ \A u \in Users, c \in Chats, z \in {1, 2} :
          (outbox' # outbox /\ cb_start_quiz(u, c, z))
            => (outbox'.kind = "begin_expired" <=> PastNewestExpiry(c, z))
     /\ AnswerStep => \A e \in AnswerEvents : \A q \in questions :
          (Addressed(e) /\ q.id = e.q /\ Handles(e))
            => IF PastNewestExpiry(e.c, q.quiz_id)
               THEN /\ outbox' = Reply("expired", e.c, e.u, <<"ans", e.q, e.o, e.t>>)
                    /\ UNCHANGED <<responses, pending_names, handlers>>
               ELSE responses' # responses \/ outbox'.kind # "expired"]_vars

\* an answer was refused as expired although the newest unit of the quiz in the
\* channel has no expiry instant: an older unit decided
C6_Witness ==
  /\ outbox.kind = "expired"
  /\ \E q \in questions :
       /\ q.id = outbox.ref[2]
       /\ UnitsOf(outbox.chat_id, q.quiz_id) # {}
       /\ sent_msgs[LastOf(UnitsOf(outbox.chat_id, q.quiz_id))].expires_at = NULL

(* C7: a registered user who answers all N questions of a quiz whose         *)
(* question set does not change causes, under any interleaving of that       *)
(* user's answer handlers, one write of finished_at and one final result for *)
(* the <<channel, user, quiz>>; stated here as its upper half: never more    *)
(* than one write and never more than one final result.                      *)
C7_FinishedOnce ==
  /\ \A k \in DOMAIN nwrites : nwrites[k] <= 1
  /\ \A k \in DOMAIN nfinals : nfinals[k] <= 1

(* C8: the completion check takes as score the number of the user's          *)
(* responses in the channel that are correct among the questions the quiz    *)
(* has at that moment, and as total the number of those questions; the final *)
(* result that follows carries that score and that total.                    *)
C8_FinalScore ==
  [][\A h \in Slots :
       /\ (handlers[h].pc = "check" /\ handlers'[h].pc = "final")
            => LET me == handlers[h]
                   qz == {q.id : q \in {x \in questions : x.quiz_id = me.quiz_id}}
               IN /\ handlers'[h].total =
                       Cardinality({r \in responses :
                                      /\ r.chat_id = me.chat_id /\ r.user_id = me.user_id
                                      /\ r.question_id \in qz /\ r.is_correct = 1})
                  /\ handlers'[h].n = Cardinality(qz)
       /\ (handlers[h].pc = "final" /\ handlers'[h].pc = "idle" /\ outbox'.kind = "final")
            => /\ outbox'.score = handlers[h].total
               /\ outbox'.total = handlers[h].n
               /\ outbox'.chat_id = handlers[h].chat_id
               /\ outbox'.user_id = handlers[h].user_id]_vars

\* a final result with one correct answer of two, sent when the quiz had already
\* got a third question
C8_Witness ==
  /\ outbox.kind = "final"
  /\ outbox.score = 1
  /\ outbox.total = 2
  /\ Cardinality({q \in questions : q.quiz_id = outbox.ref}) = 3

(* C9: the is_correct a response is stored with is the is_correct the option *)
(* with that question and option index has in the store at the insertion.    *)
C9_GradeAtInsertion ==
  [][AnswerStep => \A e \in AnswerEvents :
       (Addressed(e) /\ Stored(e.c, e.u, e.q) = {} /\ Handles(e))
         => \A r \in responses' \ responses :
              \A opt \in options :
                (opt.question_id = r.question_id /\ opt.option_index = r.option_index)
                  => r.is_correct = opt.is_correct]_vars

\* a response stored as correct for an option that became the correct one only by
\* an edit, and one stored with a flag the option no longer has
C9_Witness ==
  /\ \E r \in responses :
       r.question_id = 1 /\ r.option_index = 1 /\ r.is_correct = 1
  /\ \E r \in responses : \E opt \in options :
       /\ opt.question_id = r.question_id /\ opt.option_index = r.option_index
       /\ opt.is_correct # r.is_correct

(* C10: once an answer of a user to a question was stored in a channel, no   *)
(* publish or republish of the quiz there removes it, and every later answer *)
(* event of that user for that question there is rejected, as already        *)
(* answered or as expired, and stores nothing.                               *)
C10_RepublishKeepsAnswers ==
  [][/\ npasses' # npasses \/ sent_msgs' # sent_msgs => responses' = responses
     /\ AnswerStep => \A e \in AnswerEvents :
          (Addressed(e) /\ TallyOf(<<e.c, e.u, e.q>>).passed >= 1 /\ Handles(e))
            => /\ outbox'.kind \in {"already", "expired"}
               /\ outbox'.ref = <<"ans", e.q, e.o, e.t>>
               /\ UNCHANGED <<responses, user_progress, handlers>>]_vars

\* an answer was rejected as already answered after a republish that came after
\* the stored answer
C10_Witness ==
  /\ outbox.kind = "already"
  /\ \E r \in Stored(outbox.chat_id, outbox.user_id, outbox.ref[2]) :
       \E i, j \in 1..Len(sent_msgs) :
         /\ i < j
         /\ sent_msgs[i].expires_at # sent_msgs[j].expires_at
         /\ sent_msgs[j].expires_at # NULL
         /\ fromisoformat(sent_msgs[j].expires_at) - MaxHours > fromisoformat(r.answered_at)

(* C11: an answer event whose target user is not 0 and not the sender is     *)
(* rejected as meant for another participant whatever the other guards would *)
(* say (name missing, response already stored), and the step changes no      *)
(* response, pending name, participant, progress row or handler in flight    *)
(* and sends no final result.                                                *)
C11_OtherUserChangesNothing ==
  [][AnswerStep => \A e \in AnswerEvents :
       (~Addressed(e) /\ Handles(e))
         => /\ outbox' = Reply("other_user", e.c, e.u, <<"ans", e.q, e.o, e.t>>)
            /\ UNCHANGED <<responses, pending_names, participant_names, user_progress,
                           handlers, nwrites, nfinals>>]_vars

\* an event for somebody else was rejected although its sender has no name for
\* the quiz: no pending entry came from it
C11_Witness ==
  /\ outbox.kind = "other_user"
  /\ outbox.ref[4] # 0 /\ outbox.ref[4] # outbox.user_id
  /\ \A z \in {1, 2} : ~Named(outbox.chat_id, outbox.user_id, z)
  /\ PendingOf(outbox.chat_id, outbox.user_id) = {}

\* the quiz exists, is not archived and has a question
Publishable(z) ==
  /\ \E y \in quizzes : y.id = z /\ y.is_archived = 0
  /\ \E q \in questions : q.quiz_id = z

\* the step starts or refuses a publish request
PublishStep == npasses' = npasses + 1

\* the step is a publish request of the channel c for the quiz z
Requests(c, z) ==
  /\ PublishStep
  /\ \/ \E sel \in {"none", "12", "24"} : cb_pub_duration_selected(c, z, sel)
     \/ \E hours \in 1..MaxHours : cb_pub_custom_hours(c, z, str(hours))

(* C12: a publish request for a quiz that does not exist or has no question  *)
(* starts no pass, records no unit, attempts no send and takes no message    *)
(* id; it only reports the failure to the channel.                           *)
C12_InvalidPublishNoEffect ==
  [][PublishStep => \A c \in Chats, z \in {1, 2, 3} :
       (~Publishable(z) /\ Requests(c, z))
         => /\ outbox' = Reply("invalid_quiz", c, 0, z)
            /\ UNCHANGED <<sent_msgs, pass, log, next_message_id>>]_vars

\* after a pass of quiz 1 that recorded units, a request for the quiz without
\* questions was refused: the records are those of quiz 1 and no pass runs
C12_Witness ==
  /\ outbox.kind = "invalid_quiz" /\ outbox.ref = 2
  /\ ~Publishable(2)
  /\ ~pass.active
  /\ sent_msgs # <<>>
  /\ \A i \in 1..Len(sent_msgs) : sent_msgs[i].quiz_id = 1

\* the sends of the newest pass were all attempted and the pass is over
PassDone == ~pass.active /\ log.sends # <<>>

\* the quiz of the logged pass: its head is the first send
LoggedQuiz == log.sends[1].unit.ref

\* the logged sends of the file f
SendsOf(f) == {i \in 1..Len(log.sends) : log.sends[i].unit.file_id = f}

\* the attachments of the bundles the questions of the quiz z refer to
BundleAttsOf(z) ==
  {a \in media_bundle_attachments :
     \E q \in questions : q.quiz_id = z /\ q.media_bundle_id = a.bundle_id}

(* C13: at the end of a pass, every attachment of a bundle that one or more  *)
(* questions of the quiz refer to was sent exactly once, with its kind,      *)
(* whichever sends of the pass succeeded or failed; during the pass it was   *)
(* sent at most once.                                                        *)
C13_BundleOnce ==
  log.sends # <<>> =>
    \A a \in BundleAttsOf(LoggedQuiz) :
      /\ Cardinality(SendsOf(a.file_id)) <= 1
      /\ PassDone => Cardinality(SendsOf(a.file_id)) = 1
      /\ \A i \in SendsOf(a.file_id) :
           log.sends[i].unit.kind = a.kind /\ log.sends[i].unit.ref = a.bundle_id

\* a finished pass of the quiz whose two questions share bundle 1, in which a
\* send of the bundle failed and a later send succeeded
C13_Witness ==
  /\ PassDone
  /\ Cardinality({q \in questions : q.quiz_id = LoggedQuiz /\ q.media_bundle_id = 1}) = 2
  /\ \E i \in SendsOf("g1") : ~log.sends[i].ok
  /\ \E i \in SendsOf("g2") : log.sends[i].ok

\* the first question of the quiz z that refers to the bundle b
FirstQuestionOf(b, z) ==
  CHOOSE q \in get_quiz_question_ids(z) :
    /\ \E r \in questions : r.id = q /\ r.media_bundle_id = b
    /\ \A r \in questions : (r.quiz_id = z /\ r.media_bundle_id = b) => q <= r.id

\* the place of a unit in a pass of the quiz z: <<question, 0 for its bundle and
\* 1 for its own units, position>>, the head before everything
Place(u, z) ==
  IF u.kind = "head" THEN <<0, 0, 0>>
  ELSE IF u.kind = "text" THEN <<u.ref, 1, 0>>
  ELSE IF \E a \in media_bundle_attachments : a.file_id = u.file_id
  THEN LET a == CHOOSE a \in media_bundle_attachments : a.file_id = u.file_id
       IN <<FirstQuestionOf(a.bundle_id, z), 0, a.position>>
  ELSE LET a == CHOOSE a \in question_attachments : a.file_id = u.file_id
       IN <<a.question_id, 1, a.position>>

\* lexicographic order of places
Before(x, y) ==
  \/ x[1] < y[1]
  \/ x[1] = y[1] /\ x[2] < y[2]
  \/ x[1] = y[1] /\ x[2] = y[2] /\ x[3] < y[3]

(* C14: the sends of a pass are attempted in this order: the head first,     *)
(* then question by question in ascending id; under a question first the     *)
(* attachments of its bundle in ascending position, when no earlier question *)
(* of the pass had that bundle, then its own attachments in ascending        *)
(* position; a text unit is sent only for a question without attachments.    *)
C14_SendOrder ==
  log.sends # <<>> =>
    /\ log.sends[1].unit.kind = "head"
    /\ \A i, j \in 1..Len(log.sends) :
         i < j => Before(Place(log.sends[i].unit, LoggedQuiz),
                         Place(log.sends[j].unit, LoggedQuiz))
    /\ \A i \in 1..Len(log.sends) :
         log.sends[i].unit.kind = "text"
           => /\ log.sends[i].unit.ref \in get_quiz_question_ids(LoggedQuiz)
              /\ get_question_atts(log.sends[i].unit.ref) = <<>>

\* a finished pass of quiz 1 whose head failed: bundle 1, the two attachments
\* of question 1, the text of question 2
C14_Witness ==
  /\ PassDone
  /\ ~log.sends[1].ok
  /\ [i \in 1..Len(log.sends) |-> log.sends[i].unit.file_id]
       = <<"", "g1", "g2", "f1", "f2", "">>
  /\ log.sends[6].unit.kind = "text" /\ log.sends[6].unit.ref = 2

\* every unit of the quiz z is in the log: the head, the attachments of the
\* bundles of its questions, the own attachments of its questions, and the
\* text of each question without attachments
AllAttempted(z) ==
  /\ \E i \in 1..Len(log.sends) :
       log.sends[i].unit.kind = "head" /\ log.sends[i].unit.ref = z
  /\ \A a \in BundleAttsOf(z) : SendsOf(a.file_id) # {}
  /\ \A a \in question_attachments :
       a.question_id \in get_quiz_question_ids(z) => SendsOf(a.file_id) # {}
  /\ \A q \in get_quiz_question_ids(z) :
       get_question_atts(q) = <<>>
         => \E i \in 1..Len(log.sends) :
              log.sends[i].unit.kind = "text" /\ log.sends[i].unit.ref = q

(* C15: a pass that was started comes to its end, and at its end every unit  *)
(* of the quiz was attempted, whichever sends failed, the head included.     *)
C15_PassRunsToEnd ==
  /\ [](PassDone => AllAttempted(LoggedQuiz))
  /\ pass.active ~> ~pass.active

\* a pass of quiz 1 is over in which every send failed, the head and a retried
\* one included, and all six units were attempted
C15_Witness ==
  /\ PassDone
  /\ Len(log.sends) = 6
  /\ \A i \in 1..Len(log.sends) : ~log.sends[i].ok
  /\ AllAttempted(1)
  /\ sent_msgs = <<>>

\* the step is the return of one send of the pass in flight
SendStep == pass.active /\ Len(log'.sends) = Len(log.sends) + 1

\* the logged sends of the pass that succeeded
SentOk == {i \in 1..Len(log.sends) : log.sends[i].ok}

(* C16: a send of a pass that succeeded adds exactly one record, of the       *)
(* channel and quiz of the pass and with the message id of the unit sent; a   *)
(* send that failed adds none; no other step of a pass adds or removes a      *)
(* record.  So the records of a pass are one to one with its units sent.      *)
C16_RecordPerSentUnit ==
  [][IF SendStep
     THEN LET e == log'.sends[Len(log'.sends)] IN
          IF e.ok
          THEN /\ Len(sent_msgs') = Len(sent_msgs) + 1
               /\ SubSeq(sent_msgs', 1, Len(sent_msgs)) = sent_msgs
               /\ sent_msgs'[Len(sent_msgs')].message_id = e.message_id
               /\ sent_msgs'[Len(sent_msgs')].chat_id = pass.chat_id
               /\ sent_msgs'[Len(sent_msgs')].quiz_id = pass.quiz_id
               /\ \A j \in 1..Len(sent_msgs) : sent_msgs[j].message_id # e.message_id
          ELSE sent_msgs' = sent_msgs
     ELSE sent_msgs' = sent_msgs]_vars

\* the first pass is over, some of its sends failed and some succeeded, and
\* the records are those of the units sent, in the order of the sends
C16_Witness ==
  /\ PassDone /\ npasses = 1
  /\ SentOk # {} /\ SentOk # 1..Len(log.sends)
  /\ Len(sent_msgs) = Cardinality(SentOk)
  /\ \A i \in SentOk : \E j \in 1..Len(sent_msgs) :
       sent_msgs[j].message_id = log.sends[i].message_id
  /\ \A j \in 1..Len(sent_msgs) : \E i \in SentOk :
       sent_msgs[j].message_id = log.sends[i].message_id

\* the records of the logged pass: those of the messages its sends returned
PassRecords(rows, l) ==
  {j \in 1..Len(rows) :
     \E i \in 1..Len(l.sends) : l.sends[i].ok /\ l.sends[i].message_id = rows[j].message_id}

(* C17: the expiry of a pass is the one its request computed from the clock   *)
(* of that moment (clock + hours, or none for unlimited); it stays the same   *)
(* while the pass runs and the clock goes on, and after each send of the pass *)
(* every record of the pass carries it, whatever was retried.                 *)
C17_OneExpiryPerPass ==
  [][/\ PublishStep =>
          \A c \in Chats, z \in {1, 2, 3} :
            Publishable(z) =>
              /\ \A sel \in {"none", "12", "24"} :
                   cb_pub_duration_selected(c, z, sel)
                     => pass'.expires_at = IF sel = "none" THEN NULL
                                           ELSE IF sel = "12" THEN isoformat(now + 12)
                                           ELSE isoformat(now + 24)
              /\ \A hours \in 1..MaxHours :
                   cb_pub_custom_hours(c, z, str(hours))
                     => pass'.expires_at = isoformat(now + hours)
     /\ (pass.active /\ pass'.active) => pass'.expires_at = pass.expires_at
     /\ SendStep =>
          \A j \in PassRecords(sent_msgs', log') :
            sent_msgs'[j].expires_at = pass.expires_at]_vars

\* a pass requested at instant 0 for one hour is still running at instant 2,
\* after a retried send; its records, more than one, all expire at instant 1
C17_Witness ==
  /\ pass.active /\ pass.expires_at = isoformat(1)
  /\ now = 2
  /\ log.tried = <<"retry_after", "ok">>
  /\ Cardinality(PassRecords(sent_msgs, log)) >= 2
  /\ \A j \in PassRecords(sent_msgs, log) : sent_msgs[j].expires_at = isoformat(1)

(* C18: a send makes one attempt or two; it makes a second one exactly when  *)
(* the first raised the rate-limit signal, after sleeping the retry_after of *)
(* the signal (one second when it carries none); the send yields a message   *)
(* exactly when its last attempt succeeded and no message otherwise, and the *)
(* caller goes on: the send is logged like any other.                        *)
C18_RetryOnce ==
  [][SendStep =>
       LET t == log'.tried
           e == log'.sends[Len(log'.sends)]
       IN
       /\ Len(t) \in {1, 2}
       /\ Len(t) = 2 <=> t[1] = "retry_after"
       /\ e.ok <=> t[Len(t)] = "ok"
       /\ ~e.ok => e.message_id = 0 /\ sent_msgs' = sent_msgs
       /\ Len(t) = 1 => log'.waited = 0
       /\ \A second \in {"ok", "error"}, r \in RetryAfters :
            publish_send("retry_after", second, r)
              => log'.waited >= 1 /\ log'.waited >= r /\ (r > 0 => log'.waited = r)]_vars

\* a send was retried two seconds after the rate-limit signal and failed
\* again: no message, and the pass goes on with its next unit
C18_Witness ==
  /\ log.tried = <<"retry_after", "error">>
  /\ log.waited = 2
  /\ ~log.sends[Len(log.sends)].ok
  /\ pass.active /\ pass.queue # <<>>

\* the logged sends that carry an answer control of the question q
WithControlsOf(q) ==
  {i \in 1..Len(log.sends) :
     \E k \in 1..Len(log.sends[i].unit.controls) :
       log.sends[i].unit.controls[k][1] = "ans" /\ log.sends[i].unit.controls[k][2] = q}

\* the answer controls of the question q: one per option, addressed to everybody
AnswerControls(q) == {<<"ans", q, o.option_index, 0>> : o \in {x \in options : x.question_id = q}}

\* the own attachment of the question q that comes first
FirstAttOf(q) ==
  CHOOSE a \in question_attachments :
    /\ a.question_id = q
    /\ \A b \in question_attachments : b.question_id = q => a.position <= b.position

(* C19: in a pass, at most one send carries the answer controls of a         *)
(* question and at the end of the pass exactly one does: the send of its     *)
(* first own attachment, with the text of the question as caption, when it   *)
(* owns attachments, else the send of its text; that send carries one        *)
(* control per option.  Every other attachment, own or of a bundle, is sent  *)
(* without caption and without controls.                                     *)
C19_ControlsOnce ==
  log.sends # <<>> =>
    /\ \A q \in questions :
         q.quiz_id = LoggedQuiz =>
           /\ Cardinality(WithControlsOf(q.id)) <= 1
           /\ PassDone => Cardinality(WithControlsOf(q.id)) = 1
           /\ \A i \in WithControlsOf(q.id) :
                LET u == log.sends[i].unit IN
                /\ {u.controls[k] : k \in 1..Len(u.controls)} = AnswerControls(q.id)
                /\ Len(u.controls) = Cardinality(AnswerControls(q.id))
                /\ u.caption = q.text
                /\ IF \E a \in question_attachments : a.question_id = q.id
                   THEN u.kind = FirstAttOf(q.id).kind /\ u.file_id = FirstAttOf(q.id).file_id
                   ELSE u.kind = "text" /\ u.ref = q.id
    /\ \A i \in 1..Len(log.sends) :
         LET u == log.sends[i].unit IN
         (/\ u.kind \notin {"head", "text"}
          /\ \A q \in questions :
               (\E a \in question_attachments : a.question_id = q.id)
                 => u.file_id # FirstAttOf(q.id).file_id)
           => u.controls = <<>> /\ u.caption = ""

\* a finished pass of quiz 1: the first attachment of question 1 carried its
\* two controls although the send failed, the text of question 2 carried its
\* own, and the bundle and the second attachment carried none
C19_Witness ==
  /\ PassDone /\ LoggedQuiz = 1
  /\ WithControlsOf(1) = {4} /\ WithControlsOf(2) = {6}
  /\ log.sends[4].unit.file_id = "f1" /\ log.sends[4].unit.caption = "q1"
  /\ ~log.sends[4].ok
  /\ Len(log.sends[4].unit.controls) = 2
  /\ log.sends[6].unit.kind = "text"
  /\ \A i \in {2, 3, 5} : log.sends[i].unit.controls = <<>>

\* the replies of cb_start_quiz
BeginKinds == {"begin_expired", "name_prompt", "prompt_error", "good_luck"}

\* the step can be a begin event
BeginStep ==
  /\ outbox'.kind \in BeginKinds
  /\ UNCHANGED <<now, nevents, npasses, sent_msgs, participant_names>>

\* the step is cb_start_quiz handling the begin event of the user u for the quiz z
Begins(u, c, z) == BeginStep /\ cb_start_quiz(u, c, z)

\* <<channel, user, quiz>> is pending-name
Pending(P, c, u, z) == \E i \in 1..Len(P) : P[i] = <<c, u, z>>

(* C20, as stated: a begin event on an expired session is rejected and      *)
(* leaves the pending names as they are; on a session that is not expired    *)
(* it marks <<channel, user, quiz>> pending-name and prompts for a name      *)
(* (the prompt can fail in the transport).                                   *)
C20_BeginMarksPending ==
  [][BeginStep => \A u \in Users, c \in Chats, z \in {1, 2} :
       Begins(u, c, z) =>
         IF PastNewestExpiry(c, z)
         THEN /\ outbox' = Reply("begin_expired", c, u, z)
              /\ pending_names' = pending_names
         ELSE /\ Pending(pending_names', c, u, z)
              /\ outbox'.kind \in {"name_prompt", "prompt_error"}]_vars

(* C20, amended: a begin event on an expired session is rejected and leaves  *)
(* the pending names as they are; on a session that is not expired, a user   *)
(* without a name for the quiz in the channel is marked pending-name and     *)
(* prompted for one, and a user who has a name is only wished good luck and  *)
(* the pending names stay as they are.                                       *)
C20_BeginByExpiryAndName ==
  [][BeginStep => \A u \in Users, c \in Chats, z \in {1, 2} :
       Begins(u, c, z) =>
         IF PastNewestExpiry(c, z)
         THEN /\ outbox' = Reply("begin_expired", c, u, z)
              /\ pending_names' = pending_names
         ELSE IF ~Named(c, u, z)
         THEN /\ Pending(pending_names', c, u, z)
              /\ outbox'.kind \in {"name_prompt", "prompt_error"}
              /\ outbox'.user_id = u /\ outbox'.ref = z
         ELSE /\ outbox' = Reply("good_luck", c, u, z)
              /\ pending_names' = pending_names]_vars

\* the begin event of a user without a name was rejected on an expired
\* session: nothing is pending
C20_Witness ==
  /\ outbox.kind = "begin_expired"
  /\ PastNewestExpiry(outbox.chat_id, outbox.ref)
  /\ ~Named(outbox.chat_id, outbox.user_id, outbox.ref)
  /\ pending_names = <<>>

\* the name stored for <<channel, user, quiz>> in the table P, NULL when none
StoredName(P, c, u, z) ==
  IF \E p \in P : p.origin_chat_id = c /\ p.user_id = u /\ p.quiz_id = z
  THEN (CHOOSE p \in P : p.origin_chat_id = c /\ p.user_id = u /\ p.quiz_id = z).name
  ELSE NULL

\* the sequence s without its i-th element
Without(s, i) == SubSeq(s, 1, i - 1) \o SubSeq(s, i + 1, Len(s))

\* the earliest pending entry of <<channel, user>>
Earliest(c, u) == CHOOSE i \in PendingOf(c, u) : \A j \in PendingOf(c, u) : i <= j

\* the step stores a name
NameStep == outbox'.kind = "name_saved" /\ UNCHANGED <<now, nevents, responses>>

\* what a message that consumes the earliest pending entry of <<c, u>> does
\* when the name it stores is n
Consumes(c, u, n) ==
  LET i == Earliest(c, u)
      z == pending_names[i][3]
  IN
  /\ StoredName(participant_names', c, u, z) = n
  /\ Cardinality({p \in participant_names' :
                    p.origin_chat_id = c /\ p.user_id = u /\ p.quiz_id = z}) = 1
  /\ \A p \in participant_names' \cup participant_names :
       ~(p.origin_chat_id = c /\ p.user_id = u /\ p.quiz_id = z)
         => (p \in participant_names' /\ p \in participant_names)
  /\ pending_names' = Without(pending_names, i)

(* C21, as stated: a non-empty text message of a user with pending entries   *)
(* in the channel consumes the earliest one, whatever its quiz: the text of  *)
(* the message becomes the name for the quiz of that entry, the entry goes   *)
(* and every other pending entry and name stays.                             *)
C21_TextBecomesName ==
  [][NameStep => \A u \in Users, c \in Chats, t \in Texts :
       (t # "" /\ PendingOf(c, u) # {} /\ catch_name_in_group(u, c, t))
         => Consumes(c, u, t)]_vars

(* C21, amended: a text message that is not blank, of a user with pending    *)
(* entries in the channel, consumes the earliest one, whatever its quiz: the *)
(* text without its surrounding whitespace becomes the name for the quiz of  *)
(* that entry, the entry goes and every other pending entry and name stays;  *)
(* names and pending entries change in no other way when a name is stored,   *)
(* and a name is stored or replaced only by such a message.                  *)
C21_TrimmedTextBecomesName ==
  [][/\ NameStep => \A u \in Users, c \in Chats, t \in Texts :
          catch_name_in_group(u, c, t)
            => /\ strip(t) # "" /\ PendingOf(c, u) # {}
               /\ Consumes(c, u, strip(t))
     /\ participant_names' # participant_names
          => \E u \in Users, c \in Chats, t \in Texts :
               /\ strip(t) # "" /\ PendingOf(c, u) # {}
               /\ catch_name_in_group(u, c, t)]_vars

\* the user had pending entries for both quizzes and sent " Ann ": the name
\* Ann is stored for one quiz and the entry of the other quiz is still pending
C21_Witness ==
  /\ outbox.kind = "name_saved"
  /\ StoredName(participant_names, outbox.chat_id, outbox.user_id, outbox.ref) = "Ann"
  /\ Len(pending_names) = 1
  /\ pending_names[1][1] = outbox.chat_id /\ pending_names[1][2] = outbox.user_id
  /\ pending_names[1][3] # outbox.ref
  /\ StoredName(participant_names, outbox.chat_id, outbox.user_id, pending_names[1][3]) = NULL

\* the replies of merge_do
MergeKinds == {"same_quiz", "merged", "merge_error"}

\* the step is a merge request
MergeStep == nedits' = nedits + 1 /\ outbox'.kind \in MergeKinds

\* the tables of quizzes, questions, options, attachments and bundles
Tables ==
  <<quizzes, questions, options, question_attachments, media_bundles,
    media_bundle_attachments, sqlite_sequence>>

(* C22: a merge request that names the same quiz twice is refused and the    *)
(* step leaves the tables of quizzes, questions, options, attachments and    *)
(* bundles, and the ids given so far, as they are.                           *)
C22_SelfMergeRefused ==
  [][MergeStep => \A z \in {1, 2, 3}, k \in 0..MaxFailAt, fail \in {"bundle", "question"} :
       merge_do(z, z, k, fail)
         => /\ outbox' = Reply("same_quiz", 0, 0, <<z, z, 0>>)
            /\ UNCHANGED Tables]_vars

\* quiz 1, with its questions, was merged with itself: the reply is the
\* refusal and the store is the authored one
C22_Witness ==
  /\ outbox.kind = "same_quiz" /\ outbox.ref[1] = 1
  /\ \E q \in questions : q.quiz_id = 1
  /\ quizzes = InitQuizzes /\ questions = MergeQuestions /\ options = InitOptions
  /\ media_bundles = MergeBundles /\ media_bundle_attachments = MergeBundleAtts
  /\ question_attachments = PublishQuestionAtts

\* the rows of S in ascending id
RECURSIVE AscendingId(_)
AscendingId(S) ==
  IF S = {} THEN <<>>
  ELSE LET m == CHOOSE x \in S : \A y \in S : x.id <= y.id
       IN <<m>> \o AscendingId(S \ {m})

\* the questions of the quiz z in the table Q, in ascending id
QuestionsOf(Q, z) == AscendingId({q \in Q : q.quiz_id = z})

\* the questions a merge of src and dst has to copy, in the order of the copies
MergePlan(src, dst) == QuestionsOf(questions, src) \o QuestionsOf(questions, dst)

(* C23: after a merge that went through, the new quiz is a new row, it has   *)
(* as many questions as src and dst had together, and its questions in       *)
(* ascending id are the copies of the questions of src in ascending id       *)
(* followed by the copies of the questions of dst in ascending id; the       *)
(* questions there were stay as they were.                                   *)
C23_MergeOrder ==
  [][(MergeStep /\ outbox'.kind = "merged") =>
       LET src == outbox'.ref[1]
           dst == outbox'.ref[2]
           new == outbox'.ref[3]
           made == AscendingId({q \in questions' : q.quiz_id = new})
       IN
       /\ new \notin {z.id : z \in quizzes} /\ new \in {z.id : z \in quizzes'}
       /\ ~\E q \in questions : q.quiz_id = new
       /\ Len(made) = Cardinality({q \in questions : q.quiz_id = src})
                        + Cardinality({q \in questions : q.quiz_id = dst})
       /\ Len(made) = Len(MergePlan(src, dst))
       /\ \A i \in 1..Len(made) :
            /\ made[i].text = MergePlan(src, dst)[i].text
            /\ \A q \in questions : q.id < made[i].id
       /\ \A q \in questions : q \in questions']_vars

\* quiz 2 was merged with quiz 1: the new quiz 3 has the copy of question 3
\* first, then the copies of the questions 1 and 2
C23_Witness ==
  /\ outbox.kind = "merged" /\ outbox.ref = <<2, 1, 3>>
  /\ [i \in 1..Len(QuestionsOf(questions, 3)) |-> QuestionsOf(questions, 3)[i].text]
       = <<"q3", "q1", "q2">>
  /\ Cardinality({q \in questions : q.quiz_id \in {1, 2}}) = 3

\* the attachments of the bundle b in the table A
BundleRows(A, b) == {a \in A : a.bundle_id = b}

\* an attachment row as <<kind, content reference, position>>
Triple(a) == <<a.kind, a.file_id, a.position>>

(* C24: in a merge that went through, one new bundle is made for each        *)
(* original bundle the copied questions refer to: two copies refer to the    *)
(* same new bundle exactly when their originals referred to the same bundle, *)
(* a copy has no bundle exactly when its original had none, every new bundle *)
(* is a new row of the new quiz with an id no bundle had, and it has the     *)
(* attachments of the original (kind, content reference, position), no more  *)
(* and no fewer; the bundles there were stay as they were.                   *)
C24_BundleClonedOnce ==
  [][(MergeStep /\ outbox'.kind = "merged") =>
       LET src == outbox'.ref[1]
           dst == outbox'.ref[2]
           new == outbox'.ref[3]
           plan == MergePlan(src, dst)
           made == AscendingId({q \in questions' : q.quiz_id = new})
           cloned == media_bundles' \ media_bundles
       IN
       /\ Len(made) = Len(plan)
       /\ Cardinality(cloned)
            = Cardinality({plan[i].media_bundle_id : i \in 1..Len(plan)} \ {0})
       /\ \A b \in cloned :
            /\ b.quiz_id = new
            /\ b.id \notin {x.id : x \in media_bundles}
            /\ b.id \notin {q.media_bundle_id : q \in questions}
            /\ b.id \notin {a.bundle_id : a \in media_bundle_attachments}
            /\ \E i \in 1..Len(made) : made[i].media_bundle_id = b.id
       /\ \A i \in 1..Len(made) :
            /\ made[i].media_bundle_id = 0 <=> plan[i].media_bundle_id = 0
            /\ made[i].media_bundle_id # 0 =>
                 /\ made[i].media_bundle_id \in {b.id : b \in cloned}
                 /\ {Triple(a) : a \in BundleRows(media_bundle_attachments',
                                                  made[i].media_bundle_id)}
                      = {Triple(a) : a \in BundleRows(media_bundle_attachments,
                                                      plan[i].media_bundle_id)}
                 /\ Cardinality(BundleRows(media_bundle_attachments', made[i].media_bundle_id))
                      = Cardinality(BundleRows(media_bundle_attachments,
                                               plan[i].media_bundle_id))
       /\ \A i, j \in 1..Len(made) :
            made[i].media_bundle_id = made[j].media_bundle_id
              <=> plan[i].media_bundle_id = plan[j].media_bundle_id
       /\ \A b \in media_bundles : b \in media_bundles'
       /\ \A a \in media_bundle_attachments : a \in media_bundle_attachments'
       /\ \A a \in media_bundle_attachments' \ media_bundle_attachments :
            a.bundle_id \in {b.id : b \in cloned}]_vars

\* quiz 1 was merged with a quiz that an earlier merge made from it: of the
\* five copies two share one new bundle, two share another and one has none,
\* and each new bundle has the two attachments of bundle 1
C24_Witness ==
  /\ outbox.kind = "merged" /\ outbox.ref[1] = 1 /\ outbox.ref[2] = 3
  /\ LET made == QuestionsOf(questions, outbox.ref[3]) IN
     /\ Len(made) = 5
     /\ made[1].media_bundle_id = made[2].media_bundle_id
     /\ made[3].media_bundle_id = made[4].media_bundle_id
     /\ made[1].media_bundle_id # made[3].media_bundle_id
     /\ made[1].media_bundle_id # 0 /\ made[3].media_bundle_id # 0
     /\ made[5].media_bundle_id = 0
     /\ \A i \in {1, 3} :
          /\ {Triple(a) : a \in BundleRows(media_bundle_attachments, made[i].media_bundle_id)}
               = {<<"audio", "g1", 0>>, <<"photo", "g2", 1>>}
          /\ \E b \in media_bundles :
               b.id = made[i].media_bundle_id /\ b.quiz_id = outbox.ref[3]

\* the options of the question q in the table O, and its own attachments in
\* the table A
OptionsOf(O, q) == {o \in O : o.question_id = q}

OwnAttsOf(A, q) == {a \in A : a.question_id = q}

\* an option row as <<index, text, correctness>>
OptionTriple(o) == <<o.option_index, o.text, o.is_correct>>

\* the question c of the new tables is a full copy of the question q of the old
FullCopy(c, q) ==
  /\ c.text = q.text
  /\ {OptionTriple(o) : o \in OptionsOf(options', c.id)}
       = {OptionTriple(o) : o \in OptionsOf(options, q.id)}
  /\ Cardinality(OptionsOf(options', c.id)) = Cardinality(OptionsOf(options, q.id))
  /\ {Triple(a) : a \in OwnAttsOf(question_attachments', c.id)}
       = {Triple(a) : a \in OwnAttsOf(question_attachments, q.id)}
  /\ Cardinality(OwnAttsOf(question_attachments', c.id))
       = Cardinality(OwnAttsOf(question_attachments, q.id))

(* C25: every question a merge copies, whether the merge goes through or     *)
(* stops at a later question, has the text of its original, the options of   *)
(* its original as (index, text, correctness) and the own attachments of its *)
(* original as (kind, content reference, position), each once; the options   *)
(* and attachments there were stay as they were.                             *)
C25_CopyVerbatim ==
  [][(MergeStep /\ outbox'.kind \in {"merged", "merge_error"} /\ outbox'.ref[3] # 0) =>
       LET plan == MergePlan(outbox'.ref[1], outbox'.ref[2])
           made == AscendingId({q \in questions' : q.quiz_id = outbox'.ref[3]})
       IN
       /\ Len(made) <= Len(plan)
       /\ \A i \in 1..Len(made) : FullCopy(made[i], plan[i])
       /\ \A o \in options : o \in options'
       /\ \A a \in question_attachments : a \in question_attachments']_vars

\* quiz 1 was merged with quiz 2: the copy of question 1 has its two options,
\* the first one correct, and its two attachments; the copy of question 2 has
\* the second option correct and no attachment
C25_Witness ==
  /\ outbox.kind = "merged" /\ outbox.ref = <<1, 2, 3>>
  /\ LET made == QuestionsOf(questions, 3) IN
     /\ Len(made) = 3 /\ made[1].text = "q1" /\ made[2].text = "q2"
     /\ {OptionTriple(o) : o \in OptionsOf(options, made[1].id)}
          = {<<0, "a", 1>>, <<1, "b", 0>>}
     /\ {Triple(a) : a \in OwnAttsOf(question_attachments, made[1].id)}
          = {<<"photo", "f1", 0>>, <<"voice", "f2", 1>>}
     /\ {OptionTriple(o) : o \in OptionsOf(options, made[2].id)}
          = {<<0, "a", 0>>, <<1, "b", 1>>}
     /\ OwnAttsOf(question_attachments, made[2].id) = {}

(* C26: when the copy of the k-th question of a merge raises, the new quiz   *)
(* row stays, the k-1 questions copied before stay with their options, own   *)
(* attachments and cloned bundles, and the k-th question is not there at     *)
(* all: no question of the new quiz lacks an option or attachment of its     *)
(* original, and no new option or attachment row is without its question.   *)
(* Nothing that was in the store before the merge is removed.                *)
C26_NoRollbackNoHalfQuestion ==
  [][(MergeStep /\ outbox'.kind = "merge_error" /\ outbox'.ref[3] # 0) =>
       \A src \in {1, 2, 3}, dst \in {1, 2, 3}, k \in 1..MaxFailAt,
          fail \in {"bundle", "question"} :
         merge_do(src, dst, k, fail) =>
           LET new == outbox'.ref[3]
               plan == MergePlan(src, dst)
               made == AscendingId({q \in questions' : q.quiz_id = new})
           IN
           /\ k <= Len(plan)
           /\ [id |-> new, is_archived |-> 0] \in quizzes'
           /\ Len(made) = k - 1
           /\ \A i \in 1..Len(made) :
                /\ FullCopy(made[i], plan[i])
                /\ made[i].media_bundle_id = 0 <=> plan[i].media_bundle_id = 0
                /\ made[i].media_bundle_id # 0 =>
                     /\ [id |-> made[i].media_bundle_id, quiz_id |-> new] \in media_bundles'
                     /\ {Triple(a) : a \in BundleRows(media_bundle_attachments',
                                                      made[i].media_bundle_id)}
                          = {Triple(a) : a \in BundleRows(media_bundle_attachments,
                                                          plan[i].media_bundle_id)}
           /\ \A o \in options' \ options :
                \E i \in 1..Len(made) : o.question_id = made[i].id
           /\ \A a \in question_attachments' \ question_attachments :
                \E i \in 1..Len(made) : a.question_id = made[i].id
           /\ questions' \ questions = {made[i] : i \in 1..Len(made)}
           /\ \A z \in quizzes : z \in quizzes'
           /\ \A q \in questions : q \in questions'
           /\ \A o \in options : o \in options'
           /\ \A a \in question_attachments : a \in question_attachments'
           /\ \A b \in media_bundles : b \in media_bundles'
           /\ \A a \in media_bundle_attachments : a \in media_bundle_attachments']_vars

\* the merge of quiz 1 with quiz 2 raised at its second copy: the new quiz 3
\* is there with the full copy of question 1 and the clone of its bundle, and
\* nothing of question 2
C26_Witness ==
  /\ outbox.kind = "merge_error" /\ outbox.ref = <<1, 2, 3>>
  /\ [id |-> 3, is_archived |-> 0] \in quizzes
  /\ LET made == QuestionsOf(questions, 3) IN
     /\ Len(made) = 1 /\ made[1].text = "q1"
     /\ Cardinality(OptionsOf(options, made[1].id)) = 2
     /\ Cardinality(OwnAttsOf(question_attachments, made[1].id)) = 2
     /\ Cardinality(BundleRows(media_bundle_attachments, made[1].media_bundle_id)) = 2
     /\ \A o \in options : o.question_id \in {1, 2, 3, made[1].id}

(* ------------------------------ C27, C28 -------------------------------- *)
\* the snapshot the last export delivered, while nothing was done since
Exported == outbox.kind = "exported"

\* the values of field f along a list are strictly ascending
Ascending(list, F(_)) ==
  \A i \in 1..Len(list), j \in 1..Len(list) : i < j => F(list[i]) < F(list[j])

IdOf(x) == x.id
IndexOf(x) == x.option_index
PositionOf(x) == x.position
Elems(list) == {list[i] : i \in 1..Len(list)}

\* the bundles the questions of quiz z refer to
Referenced(z) == {q.media_bundle_id : q \in {x \in questions : x.quiz_id = z}} \ {0}

\* C27: an export snapshot lists the quiz's questions in ascending id, each
\* with exactly its options in ascending index and its own attachments in
\* ascending position, and lists exactly the bundles its questions refer to,
\* each once, in ascending id, with their attachments in ascending position;
\* a bundle of the quiz that no question refers to is not listed.
C27_SnapshotLayout ==
  Exported =>
    LET x == outbox.ref
        z == x.quiz.id
    IN /\ Ascending(x.questions, IdOf)
       /\ {q.id : q \in Elems(x.questions)} = {q.id : q \in {y \in questions : y.quiz_id = z}}
       /\ \A q \in Elems(x.questions) :
            /\ Ascending(q.options, IndexOf)
            /\ Elems(q.options) =
                 {[option_index |-> o.option_index, text |-> o.text, is_correct |-> o.is_correct] :
                    o \in {y \in options : y.question_id = q.id}}
            /\ Ascending(q.attachments, PositionOf)
            /\ Elems(q.attachments) =
                 {[kind |-> a.kind, file_id |-> a.file_id, position |-> a.position] :
                    a \in {y \in question_attachments : y.question_id = q.id}}
       /\ Ascending(x.media_bundles, IdOf)
       /\ {b.id : b \in Elems(x.media_bundles)} = Referenced(z)
       /\ \A b \in Elems(x.media_bundles) :
            /\ Ascending(b.attachments, PositionOf)
            /\ Elems(b.attachments) =
                 {[kind |-> a.kind, file_id |-> a.file_id, position |-> a.position] :
                    a \in {y \in media_bundle_attachments : y.bundle_id = b.id}}
       /\ \A b \in media_bundles :
            b.quiz_id = z /\ b.id \notin Referenced(z)
              => b.id \notin {y.id : y \in Elems(x.media_bundles)}

\* quiz 1 was exported: its questions refer to bundles 2 and 1 in that order,
\* both are listed, and its bundle 3, which no question refers to, is not
C27_Witness ==
  /\ Exported
  /\ Len(outbox.ref.questions) >= 2
  /\ Len(outbox.ref.media_bundles) >= 2
  /\ outbox.ref.questions[1].media_bundle_id > outbox.ref.questions[2].media_bundle_id
  /\ \E b \in media_bundles : b.quiz_id = outbox.ref.quiz.id /\ b.id \notin Referenced(b.quiz_id)

\* a step that delivers an export
ExportStep ==
  /\ outbox'.kind = "exported"
  /\ \/ outbox.kind # "exported"
     \/ outbox'.ref # outbox.ref
     \/ outbox'.chat_id # outbox.chat_id

\* a snapshot without its time of export
Undated(x) == [x EXCEPT !.exported_at = NULL]

HoursStep == npasses' # npasses \/ outbox'.kind = "bad_hours"

\* C29: a typed duration is taken only when it writes an integer h with
\* 0 < h <= 240: any other message is reported to the owner, starts no pass and
\* records no unit; a duration that is taken for a quiz with questions starts
\* a pass whose expiry is the instant of the message plus h hours.
C29_CustomHoursRange ==
  [][HoursStep => \A c \in Chats, z \in {1, 2}, t \in Typed :
       cb_pub_custom_hours(c, z, t.text)
         => IF t.integer /\ 0 < t.hours /\ t.hours <= 240
            THEN /\ npasses' = npasses + 1
                 /\ Publishable(z)
                      => /\ ~pass.active /\ pass'.active
                         /\ pass'.quiz_id = z
                         /\ pass'.expires_at = isoformat(now + t.hours)
            ELSE /\ outbox' = Reply("bad_hours", c, 0, z)
                 /\ UNCHANGED <<pass, npasses, sent_msgs, log, next_message_id>>]_vars

\* a pass of 240 hours has recorded its units, and a message typed after it
\* was refused: the records stand and no pass runs
C29_Witness ==
  /\ outbox.kind = "bad_hours"
  /\ ~pass.active
  /\ sent_msgs # <<>>
  /\ \A i \in 1..Len(sent_msgs) : fromisoformat(sent_msgs[i].expires_at) >= 240

(* -------------------------------- C30 ----------------------------------- *)
\* the event names a question that has no row, or, having passed the guards of
\* the handler, an option index that no option of its question has
NamesNothing(e) ==
  /\ Addressed(e)
  /\ \/ \A q \in questions : q.id # e.q
     \/ \E q \in questions :
          /\ Reaches(e, q)
          /\ HasName(e.c, e.u, q.quiz_id)
          /\ Stored(e.c, e.u, e.q) = {}
          /\ \A o \in options : ~(o.question_id = e.q /\ o.option_index = e.o)

\* C30: an answer event that names a missing question, or an option index that
\* no option of the question has, is reported and ends there: no response is
\* stored for it and no handler goes on to the completion check.
C30_NotFoundAborts ==
  [][AnswerStep => \A e \in AnswerEvents :
       (Handles(e) /\ NamesNothing(e))
         => /\ outbox'.kind \in {"no_question", "no_option"}
            /\ outbox'.ref = <<"ans", e.q, e.o, e.t>>
            /\ responses' = responses
            /\ handlers' = handlers]_vars

(* -------------------------------- C31 ----------------------------------- *)
\* the step delivers the acknowledgment of the answer the handler h stored
Acknowledges(h) ==
  /\ handlers[h].pc = "ack"
  /\ handlers'[h] # handlers[h]
  /\ outbox'.kind \in {"correct", "wrong"}

\* C31: whether the celebratory send after an acknowledged answer is not
\* configured, goes through or fails, the handler goes on to the completion
\* check with the response as it was stored and graded, and the step changes no
\* response, no progress row and no final result: what follows is decided by
\* the store alone.
C31_CelebrationApart ==
  [][\A h \in Slots : Acknowledges(h) =>
       /\ outbox'.celebration \in Celebrations
       /\ handlers'[h] = [handlers[h] EXCEPT !.pc = "check"]
       /\ outbox'.kind = (IF handlers[h].is_correct = 1 THEN "correct" ELSE "wrong")
       /\ UNCHANGED <<responses, user_progress, participant_names, nwrites, nfinals>>]_vars

\* the celebratory send of the last answer failed, and the handler has written
\* the progress row and is about to send the final result
C31_Witness ==
  /\ outbox.kind \in {"correct", "wrong"}
  /\ outbox.celebration = "failed"
  /\ \E h \in Slots : handlers[h].pc = "final" /\ handlers[h].n = 2
  /\ user_progress # {}

(* -------------------------------- C32 ----------------------------------- *)
\* a step that removes quiz rows
DeleteQuizStep == quizzes' # quizzes

UnlimitedNewest(c, z) ==
  /\ UnitsOf(c, z) # {}
  /\ sent_msgs[LastOf(UnitsOf(c, z))].expires_at = NULL

\* C33: once a pass without time limit has recorded a unit of a quiz in a
\* channel, and no pass came after it, no begin event and no answer event for
\* the quiz in the channel is rejected as expired, whatever the passes before
\* it were.
C33_UnlimitedReopens ==
  [][\A c \in Chats, z \in {1, 2} : UnlimitedNewest(c, z) =>
       /\ \A u \in Users : Begins(u, c, z) => outbox'.kind # "begin_expired"
       /\ AnswerStep => \A e \in AnswerEvents : \A q \in questions :
            (e.c = c /\ q.id = e.q /\ q.quiz_id = z /\ Addressed(e) /\ Handles(e))
              => (responses' # responses \/ outbox'.kind # "expired")]_vars

(* -------------------------------- C34 ----------------------------------- *)
\* no on_answer invocation is in flight
Quiet == \A h \in Slots : handlers[h].pc = "idle"

\* the user holds a response for every question of the quiz in the channel
AnsweredAll(c, u, z) ==
  /\ get_quiz_question_ids(z) # {}
  /\ \A q \in get_quiz_question_ids(z) : Stored(c, u, q) # {}

\* C34: whenever no answer handler is in flight, a user who holds a response
\* for every question of a quiz in a channel has a progress row with
\* finished_at set for the <<channel, user, quiz>>, also when the
\* acknowledgment of the last stored response could not be sent.
C34_AnsweredAllIsFinished ==
  Quiet => \A c \in Chats, u \in Users, z \in {1, 2} :
    AnsweredAll(c, u, z)
      => \E p \in user_progress :
           /\ p.origin_chat_id = c /\ p.user_id = u /\ p.quiz_id = z
           /\ p.finished_at # NULL

(* -------------------------------- C35 ----------------------------------- *)
\* the event is refused with the reply `kind` and nothing else happens
Refused(e, kind) ==
  /\ outbox' = Reply(kind, e.c, e.u, <<"ans", e.q, e.o, e.t>>)
  /\ UNCHANGED <<responses, pending_names, participant_names, user_progress, handlers>>

\* C35: the answer handler takes its guards in the order target user, question
\* exists, session expired, participant registered, already answered, and the
\* first that fails decides: an event for another user is refused as such
\* whatever else holds; an addressed event for a missing question as not found;
\* an addressed event on an expired session as expired, creating no
\* pending-name entry for a user without a name and also when the question is
\* already answered; then the name is asked for; then an answered question is
\* refused as already answered; and only an event past all of them stores.
C35_GuardOrder ==
  [][AnswerStep => \A e \in AnswerEvents : Handles(e) =>
       IF ~Addressed(e) THEN Refused(e, "other_user")
       ELSE IF \A q \in questions : q.id # e.q THEN Refused(e, "no_question")
       ELSE \A q \in questions : q.id = e.q =>
         IF PastNewestExpiry(e.c, q.quiz_id) THEN Refused(e, "expired")
         ELSE IF ~Named(e.c, e.u, q.quiz_id)
         THEN /\ Pending(pending_names', e.c, e.u, q.quiz_id)
              /\ outbox'.kind \in {"name_first", "prompt_error"}
              /\ UNCHANGED <<responses, handlers>>
         ELSE IF Stored(e.c, e.u, e.q) # {} THEN Refused(e, "already")
         ELSE /\ Stored(e.c, e.u, e.q)' # {}
              /\ pending_names' = pending_names]_vars

\* an answer for an answered question was refused as expired
C35_Witness ==
  /\ outbox.kind = "expired"
  /\ pending_names = <<>>
  /\ Stored(outbox.chat_id, outbox.user_id, outbox.ref[2]) # {}

(* -------------------------------- C36 ----------------------------------- *)
\* C36: in every reachable state, each stored response of a question that is
\* there belongs to a user who has a name for the quiz of the question in the
\* channel of the response.
C36_ResponseHasParticipant ==
  \A r \in responses : \A q \in questions :
    q.id = r.question_id => Named(r.chat_id, r.user_id, q.quiz_id)

\* a user has answered both questions, and the answer of the other user, who
\* gave no name, was met with the name prompt and stored nothing
C36_Witness ==
  /\ outbox.kind = "name_first"
  /\ \A r \in responses : r.user_id # outbox.user_id
  /\ \E r1, r2 \in responses : r1.question_id # r2.question_id

(* -------------------------------- C37 ----------------------------------- *)
\* no <<channel, user, quiz>> is pending-name and has a name
NeverBoth ==
  \A i \in 1..Len(pending_names) :
    ~Named(pending_names[i][1], pending_names[i][2], pending_names[i][3])

\* C37: under every interleaving of begin, answer and name events, no
\* <<channel, user, quiz>> is pending-name while it has a participant row, and
\* so no step replaces or removes a name that was stored.
C37_PendingOrNamed ==
  [][/\ NeverBoth'
     /\ \A p \in participant_names : p \in participant_names']_vars

\* the user has the name of the first message for quiz 1 and that of a later
\* message for quiz 2
C37_Witness ==
  /\ \E p \in participant_names : p.quiz_id = 1 /\ p.name = "Ann"
  /\ \E p \in participant_names : p.quiz_id = 2 /\ p.name = "Bea"
  /\ pending_names = <<>>

(* ----------------------------- add question ---------------------------- *)
\* The handlers of the add-question conversation.  The FSM state is kept per
\* chat; build_session is one object of the process.  Every event here comes
\* from the owner, so ensure_owner passes.
\* what the add-question handlers leave alone
notBuilt == <<now, quizzes, media_bundles, media_bundle_attachments, question_attachments,
              answerVars, ghostVars, publishVars, edit_state>>

\* picked_quiz_for_addq: any state of the conversation; the quiz goes to the
\* shared session
picked_quiz_for_addq(chat_id, qid) ==
  /\ build_session' = [build_session EXCEPT !.quiz_id = qid, !.att_count = 0]
  /\ build_state' = [build_state EXCEPT ![chat_id].state = "waiting_q_text"]
  /\ outbox' = Reply("ask_q_text", chat_id, 0, qid)
  /\ UNCHANGED <<notBuilt, questions, options, sqlite_sequence, nedits>>

\* receive_q_text without question_id in the FSM data: the question row is
\* inserted under the session's quiz and its id goes to the session
receive_q_text(chat_id, text) ==
  LET qid == sqlite_sequence.questions + 1 IN
  /\ build_state[chat_id].state = "waiting_q_text"
  /\ nedits < MaxEdits
  /\ nedits' = nedits + 1
  /\ questions' = questions \cup
       {[id |-> qid, quiz_id |-> build_session.quiz_id, text |-> strip(text),
         media_bundle_id |-> 0]}
  /\ sqlite_sequence' = [sqlite_sequence EXCEPT !.questions = qid]
  /\ build_session' = [build_session EXCEPT !.tmp_question_id = qid, !.att_count = 0]
  /\ build_state' = [build_state EXCEPT
                       ![chat_id] = [state |-> "waiting_attach_mode", created |-> qid]]
  /\ outbox' = Reply("ask_attach_mode", chat_id, 0, qid)
  /\ UNCHANGED <<notBuilt, options>>

\* choose_attach_mode: bundle, own, or anything else (no attachments)
choose_attach_mode(chat_id, mode) ==
  /\ build_state[chat_id].state = "waiting_attach_mode"
  /\ build_state' = [build_state EXCEPT ![chat_id].state =
                       CASE mode = "bundle" -> "waiting_pick_bundle_for_q"
                         [] mode = "own" -> "waiting_q_attachments"
                         [] OTHER -> "waiting_options_count"]
  /\ outbox' = Reply(CASE mode = "bundle" -> "ask_bundle"
                       [] mode = "own" -> "ask_attachments"
                       [] OTHER -> "ask_options_count",
                     chat_id, 0, build_session.quiz_id)
  /\ UNCHANGED <<notBuilt, questions, options, sqlite_sequence, nedits, build_session>>

\* finish_attachments_if_text: the word "done" ends the attachments
finish_attachments_if_text(chat_id, text) ==
  /\ build_state[chat_id].state = "waiting_q_attachments"
  /\ IF text = "done"
     THEN /\ build_state' = [build_state EXCEPT ![chat_id].state = "waiting_options_count"]
          /\ outbox' = Reply("ask_options_count", chat_id, 0, 0)
     ELSE /\ outbox' = Reply("ask_attachment_or_done", chat_id, 0, 0)
          /\ UNCHANGED build_state
  /\ UNCHANGED <<notBuilt, questions, options, sqlite_sequence, nedits, build_session>>

\* receive_options_count: 2..10, kept in the session with the count of the
\* options collected set back to 0
receive_options_count(chat_id, n) ==
  /\ build_state[chat_id].state = "waiting_options_count"
  /\ IF n < 2 \/ n > 10
     THEN /\ outbox' = Reply("bad_count", chat_id, 0, 0)
          /\ UNCHANGED <<build_session, build_state>>
     ELSE /\ build_session' = [build_session EXCEPT
                                 !.options_needed = n, !.options_collected = 0]
          /\ build_state' = [build_state EXCEPT ![chat_id].state = "waiting_option_text"]
          /\ outbox' = Reply("ask_option_text", chat_id, 0, 1)
  /\ UNCHANGED <<notBuilt, questions, options, sqlite_sequence, nedits>>

\* receive_option_text: one option row for the session's question at the
\* session's index
receive_option_text(chat_id, text) ==
  LET idx == build_session.options_collected
      more == idx + 1 < build_session.options_needed
  IN
  /\ build_state[chat_id].state = "waiting_option_text"
  /\ options' = options \cup
       {[id |-> sqlite_sequence.options + 1, question_id |-> build_session.tmp_question_id,
         option_index |-> idx, text |-> strip(text), is_correct |-> 0]}
  /\ sqlite_sequence' = [sqlite_sequence EXCEPT !.options = @ + 1]
  /\ build_session' = [build_session EXCEPT !.options_collected = idx + 1]
  /\ build_state' = [build_state EXCEPT ![chat_id].state =
                       IF more THEN "waiting_option_text" ELSE "waiting_correct_index"]
  /\ outbox' = Reply(IF more THEN "ask_option_text" ELSE "ask_correct_index",
                     chat_id, 0, idx + 2)
  /\ UNCHANGED <<notBuilt, questions, nedits>>

\* receive_correct_index: 1..options_needed; the option of the session's
\* question at that index is flagged and the conversation ends
receive_correct_index(chat_id, i) ==
  /\ build_state[chat_id].state = "waiting_correct_index"
  /\ IF i < 1 \/ i > build_session.options_needed
     THEN /\ outbox' = Reply("bad_correct", chat_id, 0, 0)
          /\ UNCHANGED <<options, build_state>>
     ELSE /\ options' = {IF o.question_id = build_session.tmp_question_id
                            /\ o.option_index = i - 1
                         THEN [o EXCEPT !.is_correct = 1] ELSE o : o \in options}
          /\ build_state' = [build_state EXCEPT ![chat_id] = NoConversation]
          /\ outbox' = Reply("question_saved", chat_id, 0, build_session.tmp_question_id)
  /\ UNCHANGED <<notBuilt, questions, sqlite_sequence, nedits, build_session>>

PickForAdd(ZS) == \E c \in AuthorChats, z \in ZS : picked_quiz_for_addq(c, z)

QuestionText == \E c \in AuthorChats : receive_q_text(c, " Ann ")

AttachMode == \E c \in AuthorChats, mode \in {"own", "none"} : choose_attach_mode(c, mode)

AttachmentsText == \E c \in AuthorChats, text \in {"done", "Bea"} :
  finish_attachments_if_text(c, text)

AddOptionsCount == \E c \in AuthorChats, n \in 1..MaxOptions : receive_options_count(c, n)

OptionText == \E c \in AuthorChats : receive_option_text(c, "Bea")

CorrectIndex == \E c \in AuthorChats, i \in 1..(MaxOptions + 1) : receive_correct_index(c, i)

NextBuild ==
  \/ PickForAdd({1})
  \/ QuestionText
  \/ AttachMode
  \/ AttachmentsText
  \/ AddOptionsCount
  \/ OptionText
  \/ CorrectIndex

SpecBuild == Init /\ [][NextBuild]_vars

\* the conversation of the chat ends with its correct index accepted
AddCompleted(c) ==
  /\ build_state[c].state = "waiting_correct_index"
  /\ build_state'[c].state = ""

\* the rows of table that are options of question q are indexed 0..n-1, n in
\* 2..10, and exactly one is flagged correct
WellFormed(table, q) ==
  LET os == {o \in table : o.question_id = q} IN
  /\ Cardinality({o \in os : o.is_correct = 1}) = 1
  /\ \E n \in 2..10 : Cardinality(os) = n /\ {o.option_index : o \in os} = 0..(n - 1)

\* C38: when an add-question conversation ends with its correct index
\* accepted, the question that conversation created has options indexed
\* 0..n-1 and exactly one of them flagged correct, whatever the owner's
\* conversations in other chats did in between
C38_CompletedIsWellFormed ==
  [][\A c \in AuthorChats : AddCompleted(c) => WellFormed(options', build_state[c].created)]_vars

(* ----------------------------- danger zone ----------------------------- *)
\* is_owner
is_owner(user_id) == user_id = OWNER_ID

\* who can send an event: the owner and the members of the group
Requesters == Users \cup {OWNER_ID}

\* btn_wipe_all: ensure_owner turns every other sender away; the owner gets
\* the yes/no keyboard.  Nothing is deleted here
btn_wipe_all(from_user) ==
  /\ outbox' = Reply(IF is_owner(from_user) THEN "confirm_wipe" ELSE "owner_only",
                     0, from_user, 0)
  /\ UNCHANGED <<now, storeVars, answerVars, ghostVars, publishVars>>

\* cb_wipe_yes: the ten tables are emptied; DELETE leaves the AUTOINCREMENT
\* counters and the pending names of the process alone.  The handler does not
\* look at the sender.  The button exists while the confirmation is on
\* screen, in the chat it was asked in
cb_wipe_yes(from_user) ==
  /\ outbox.kind = "confirm_wipe"
  /\ nedits < MaxEdits
  /\ nedits' = nedits + 1
  /\ responses' = {}
  /\ options' = {}
  /\ questions' = {}
  /\ quizzes' = {}
  /\ user_progress' = {}
  /\ sent_msgs' = <<>>
  /\ participant_names' = {}
  /\ question_attachments' = {}
  /\ media_bundle_attachments' = {}
  /\ media_bundles' = {}
  /\ outbox' = Reply("wiped", 0, from_user, 0)
  /\ UNCHANGED <<now, sqlite_sequence, edit_state, buildVars, pending_names, handlers,
                 ghostVars, pass, npasses, next_message_id, log>>

WipeButton == \E u \in Requesters : btn_wipe_all(u)

WipeYes == \E u \in Requesters : cb_wipe_yes(u)

DeleteBy(QS) == \E u \in Requesters, q \in QS : cb_m_delete(u, q)

NextWipe ==
  \/ Begin({1}, {2})
  \/ Name({1}, {" Ann "})
  \/ Answer({1}, {3}, {0})
  \/ AnswerAck
  \/ CheckFinish
  \/ FinalResult
  \/ WipeButton
  \/ WipeYes
  \/ DeleteBy({1, 3})

SpecWipe == InitExport /\ [][NextWipe]_vars

\* a wipe or a question deletion has been carried out
Destroys ==
  /\ nedits' = nedits + 1
  /\ outbox'.kind \in {"wiped", "question_deleted"}

\* the ten tables of the store
StoreTables ==
  <<quizzes, questions, options, question_attachments, media_bundles,
    media_bundle_attachments, responses, participant_names, user_progress, sent_msgs>>

\* C39: the wipe-all confirmation and the delete-question action of a sender
\* who is not the owner leave every table as it was
C39_OwnerOnlyDestroys ==
  [][Destroys /\ ~is_owner(outbox'.user_id) => UNCHANGED StoreTables]_vars

\* what the tables S hold of quiz z: its row, its questions with their options
\* and own attachments, its bundles with their attachments
RowsOf(S, z) ==
  LET qs == {q \in S.questions : q.quiz_id = z}
      bs == {b \in S.media_bundles : b.quiz_id = z}
  IN [quiz |-> {r \in S.quizzes : r.id = z},
      questions |-> qs,
      options |-> {o \in S.options : o.question_id \in {q.id : q \in qs}},
      own |-> {a \in S.question_attachments : a.question_id \in {q.id : q \in qs}},
      bundles |-> bs,
      bundle_atts |-> {a \in S.media_bundle_attachments : a.bundle_id \in {b.id : b \in bs}}]

\* C40: a merge request, gone through or failed at any copy, leaves the quiz
\* row, questions, options, own attachments, bundles and bundle attachments of
\* both quizzes it names exactly as they were, and no question of either
\* refers to a bundle the merge made
C40_MergeKeepsSources ==
  [][MergeStep =>
       \A z \in {outbox'.ref[1], outbox'.ref[2]} :
         /\ RowsOf(Store', z) = RowsOf(Store, z)
         /\ \A q \in questions' : q.quiz_id = z =>
              q.media_bundle_id \notin {b.id : b \in media_bundles' \ media_bundles}]_vars

\* a merge failed at a copy after it had made the new quiz and a bundle for it
C40_Witness ==
  /\ outbox.kind = "merge_error"
  /\ outbox.ref[3] # 0
  /\ \E b \in media_bundles : b.quiz_id = outbox.ref[3]

====
